---- MODULE Spec2Model ----
(***************************************************************************)
(* Request routing and edge-function pipeline of the framework server:     *)
(* Server.handleRequest / Server.run, Router.execute, the edge catch-all   *)
(* route, Server.runEdgeFunctions and the EdgeResponse surface that user   *)
(* edge functions drive.                                                   *)
(*                                                                         *)
(* Text (paths, URLs, header values, bodies) is a sequence of tokens: the  *)
(* token "/" is the path separator, "?" starts the query, every other      *)
(* token is an indivisible piece of text.  String operations of the code   *)
(* (startsWith, replace, concatenation) act on these sequences.            *)
(***************************************************************************)
EXTENDS Integers, Sequences, FiniteSets, TLC

(***************************************************************************)
(* Bounds of the model                                                     *)
(***************************************************************************)
\* longest edge-function program (number of API calls made by one handler)
MaxOps == 2
\* the first MaxRich invocations of a request may run a program of more than
\* one call; the later ones make one call
MaxRich == 1

(***************************************************************************)
(* Program constants                                                       *)
(***************************************************************************)
\* runEdgeFunctions: if (prevCalls > 5) throw
MaxEdgeCalls == 5

(***************************************************************************)
(* Text helpers                                                            *)
(***************************************************************************)
RECURSIVE FindAt(_, _, _)
\* first index i >= from where needle occurs in hay, 0 when there is none
FindAt(hay, needle, from) ==
  IF from + Len(needle) - 1 > Len(hay) THEN 0
  ELSE IF SubSeq(hay, from, from + Len(needle) - 1) = needle THEN from
  ELSE FindAt(hay, needle, from + 1)

\* String.prototype.startsWith
StartsWith(s, p) == Len(p) <= Len(s) /\ SubSeq(s, 1, Len(p)) = p

\* String.prototype.endsWith
EndsWith(s, p) == Len(p) <= Len(s) /\ SubSeq(s, Len(s) - Len(p) + 1, Len(s)) = p

\* String.prototype.replace(pattern, '') with a string pattern: removes the
\* first occurrence of the pattern, wherever it is
ReplaceFirst(s, pat) ==
  LET i == FindAt(s, pat, 1) IN
  IF Len(pat) = 0 \/ i = 0 THEN s
  ELSE SubSeq(s, 1, i - 1) \o SubSeq(s, i + Len(pat), Len(s))

Digits == <<"0", "1", "2", "3", "4", "5", "6", "7", "8", "9">>

RECURSIVE NumStr(_)
\* `${n}` for a non-negative integer
NumStr(n) ==
  IF n < 10 THEN <<Digits[n + 1]>>
  ELSE NumStr(n \div 10) \o <<Digits[(n % 10) + 1]>>

\* the part of a URL before '?'
UrlPath(u) ==
  LET i == FindAt(u, <<"?">>, 1) IN
  IF i = 0 THEN u ELSE SubSeq(u, 1, i - 1)

\* the part of a URL after '?', empty when there is none
UrlSearch(u) ==
  LET i == FindAt(u, <<"?">>, 1) IN
  IF i = 0 THEN <<>> ELSE SubSeq(u, i + 1, Len(u))

(***************************************************************************)
(* Headers: a WHATWG Headers object / the header table of the Node         *)
(* response, as a function from the (lower-cased) names present to values  *)
(***************************************************************************)
NoHeaders == [n \in {} |-> <<>>]

HHas(h, k) == k \in DOMAIN h

HSet(h, k, v) == [n \in DOMAIN h \cup {k} |-> IF n = k THEN v ELSE h[n]]

HDelete(h, k) == [n \in DOMAIN h \ {k} |-> h[n]]

\* Headers.get: null (here the empty text) when the header is absent
HGet(h, k) == IF k \in DOMAIN h THEN h[k] ELSE <<>>

\* for (const [key, value] of a.entries()) b.setHeader(key, value)
HCopyAll(b, a) == [n \in DOMAIN a \cup DOMAIN b |-> IF n \in DOMAIN a THEN a[n] ELSE b[n]]

XNext == "x-nextjs-next"
XRewrite == "x-nextjs-rewrite"
XRedirect == "x-nextjs-redirect"
XFunctions == "x-nextjs-functions"
Sentinels == {XNext, XRewrite, XRedirect}

(***************************************************************************)
(* EdgeResponse (edge-functions/response.ts) together with the adapter's   *)
(* resolution of the invocation (edge-functions/adapter.ts).               *)
(*   event   : the event the adapter's promise resolved with, "none" while *)
(*             it is unresolved (the first resolveResponse wins)           *)
(*   chunks  : what was enqueued on the output stream, closed: its writer  *)
(*             was closed                                                  *)
(*   thrown  : the handler has thrown, none of its later calls runs        *)
(*   emitted : the modes _onHeadersSent was called with, in order          *)
(***************************************************************************)
NewEdgeResponse(headers, method, basePath) ==
  [ headers |-> headers, statusCode |-> 200, finished |-> FALSE,
    headersSent |-> FALSE, streaming |-> FALSE, writer |-> FALSE,
    body |-> <<>>, chunks |-> <<>>, closed |-> FALSE,
    event |-> "none", thrown |-> FALSE, method |-> method,
    basePath |-> basePath, statusAtHeaders |-> 0, emitted |-> <<>> ]

\* adapter: onHeadersSent / next() call resolveResponse; a promise resolves once
ResolveResponse(r, ev) == IF r.event = "none" THEN [r EXCEPT !.event = ev] ELSE r

Throw(r) == [r EXCEPT !.thrown = TRUE]

\* EdgeResponse._sendHeaders; statusAtHeaders keeps the status the response
\* had when its headers were sent
SendHeaders(r, ev) ==
  IF r.headersSent THEN Throw(r)
  ELSE ResolveResponse([r EXCEPT !.headersSent = TRUE, !.statusAtHeaders = r.statusCode,
                                 !.emitted = Append(r.emitted, ev)], ev)

\* EdgeResponse.setHeaders with one header (or none: k = "")
SetHeaders(r, k, v) ==
  IF r.headersSent THEN Throw(r)
  ELSE IF k = "" THEN r
  ELSE [r EXCEPT !.headers = HSet(r.headers, k, v)]

\* EdgeResponse.writeHead(code) without headers
WriteHead(r, code) ==
  LET r1 == SetHeaders([r EXCEPT !.statusCode = code], "", <<>>) IN
  IF r1.thrown THEN r1
  ELSE SendHeaders([r1 EXCEPT !.streaming = TRUE], "streaming")

\* the `writer` getter: the first access opens the writer and, when the
\* headers were not sent yet, sends them as 'streaming'
GetWriter(r) ==
  IF r.writer THEN r
  ELSE LET r1 == [r EXCEPT !.writer = TRUE, !.streaming = TRUE] IN
       IF ~r1.headersSent THEN WriteHead(r1, r1.statusCode) ELSE r1

WriteAfterClose(r, chunk) ==
  LET r1 == GetWriter(r) IN
  IF r1.thrown THEN r1 ELSE [r1 EXCEPT !.chunks = Append(r1.chunks, chunk)]

\* EdgeResponse.write: a write on a closed writer is a rejected promise, the
\* chunk is dropped
Write(r, chunk) ==
  LET r1 == GetWriter(r) IN
  IF r1.thrown THEN r1
  ELSE IF r1.closed THEN r1
  ELSE [r1 EXCEPT !.chunks = Append(r1.chunks, chunk)]

\* EdgeResponse.status
Status(r, code) == [r EXCEPT !.statusCode = code]

\* this.writer.close() inside end()
CloseWriter(r) ==
  LET r1 == GetWriter(r) IN
  IF r1.thrown THEN r1 ELSE [r1 EXCEPT !.closed = TRUE]

FinishSilent(r) == [r EXCEPT !.finished = TRUE]

\* the tail of EdgeResponse.end once the body is settled
Finish(r) ==
  LET r1 == [r EXCEPT !.finished = TRUE] IN
  IF ~r1.headersSent
  THEN SendHeaders(r1, IF r1.streaming THEN "streaming" ELSE "data")
  ELSE r1

\* EdgeResponse.end() without data
End(r) ==
  IF r.finished THEN r
  ELSE IF r.streaming
       THEN LET r1 == CloseWriter(r) IN IF r1.thrown THEN r1 ELSE Finish(r1)
       ELSE Finish(r)

\* EdgeResponse.send(data) with a string
Send(r, data) ==
  IF r.finished THEN Throw(r)
  ELSE LET r1 == SetHeaders(r, "", <<>>) IN
       IF r1.thrown THEN r1
       ELSE IF r1.statusCode \in {204, 205, 304}
            THEN End([r1 EXCEPT !.headers = HDelete(HDelete(r1.headers, "content-length"), "content-type"),
                                !.body = <<>>])
            ELSE IF r1.method = "HEAD"
                 THEN End([r1 EXCEPT !.body = <<>>])
                 ELSE End([r1 EXCEPT !.body = data])

\* EdgeResponse.end(data) with a string
EndData(r, data) ==
  IF r.finished THEN r
  ELSE IF r.streaming
       THEN LET r1 == Write(r, data) IN
            IF r1.thrown THEN r1
            ELSE LET r2 == CloseWriter(r1) IN IF r2.thrown THEN r2 ELSE Finish(r2)
       ELSE Send(r, data)

\* formatPathname / EdgeResponse._formatUrl of a string target: an absolute
\* URL is kept, a path gets the base path in front
FormatTarget(url, basePath) ==
  IF ~StartsWith(url, <<"/">>) THEN url
  ELSE IF UrlPath(url) = <<"/">> /\ Len(basePath) > 0
       THEN basePath \o SubSeq(url, 2, Len(url))
       ELSE basePath \o url

RedirectNoSentinel(r, status, url) == End(Status(r, IF status = 0 THEN 302 ELSE status))

\* EdgeResponse.redirect(url) (status = 0) or redirect(status, url)
Redirect(r, status, url) ==
  LET address == FormatTarget(url, r.basePath)
      r1 == [r EXCEPT !.headers = HSet(r.headers, XRedirect, address)]
      r2 == Status(r1, IF status = 0 THEN 302 ELSE status)
  IN End(r2)

\* EdgeResponse.rewrite(url)
Rewrite(r, url) ==
  End([r EXCEPT !.headers = HSet(r.headers, XRewrite, FormatTarget(url, r.basePath))])

CallNextUnguarded(r) ==
  ResolveResponse([r EXCEPT !.headers = HSet(r.headers, XNext, <<"1">>)], "next")

\* adapter: next()
CallNext(r) ==
  IF r.finished THEN r
  ELSE ResolveResponse([r EXCEPT !.headers = HSet(r.headers, XNext, <<"1">>)], "next")

(***************************************************************************)
(* Edge-function programs: what one user handler does with (req, res,      *)
(* next) in one invocation, as the sequence of API calls it makes.  The    *)
(* handler runs to completion before the pipeline resumes (every handler   *)
(* of the test suite is synchronous).                                      *)
(***************************************************************************)
TA == <<"/", "a">>
TBq == <<"/", "b", "?", "q=1">>
TX == <<"https://x">>

Op(op, n, k, s) == [op |-> op, n |-> n, k |-> k, s |-> s]

Ops ==
  { Op("status", 401, "", <<>>),
    Op("setHeaders", 0, "x-a", <<"1">>),
    Op("write", 0, "", <<"c1">>),
    Op("send", 0, "", <<"hi">>),
    Op("end", 0, "", <<>>),
    Op("next", 0, "", <<>>) }
  \cup { Op("redirect", n, "", t) : n \in {0, 308}, t \in {TX, TBq} }
  \cup { Op("rewrite", 0, "", t) : t \in {TA, TBq, TX} }

UserHeaders == {"x-a"}

Exec(r, o) ==
  CASE o.op = "status" -> Status(r, o.n)
    [] o.op = "setHeaders" -> SetHeaders(r, o.k, o.s)
    [] o.op = "write" -> Write(r, o.s)
    [] o.op = "send" -> Send(r, o.s)
    [] o.op = "end" -> End(r)
    [] o.op = "next" -> CallNext(r)
    [] o.op = "redirect" -> Redirect(r, o.n, o.s)
    [] o.op = "rewrite" -> Rewrite(r, o.s)

RECURSIVE RunOps(_, _)
\* the handler body: a call that throws ends the handler
RunOps(r, ops) ==
  IF ops = <<>> \/ r.thrown THEN r
  ELSE RunOps(Exec(r, Head(ops)), Tail(ops))

Programs(maxlen) == UNION { [1..n -> Ops] : n \in 0..maxlen }

\* adapter(): a fresh EdgeResponse over the inherited headers, driven by the
\* handler; the result is the response with the event the promise resolved
\* with ("none": the promise never resolves)
Adapter(headers, method, basePath, prog) ==
  RunOps(NewEdgeResponse(headers, method, basePath), prog)

\* `undefined` in place of an EdgeFunctionResult
NoResult == [NewEdgeResponse(NoHeaders, "GET", <<>>) EXCEPT !.event = "undefined"]

IsResult(r) == r.event # "undefined"

(***************************************************************************)
(* The outer (Node) response and the collaborators that write to it        *)
(***************************************************************************)
NewRes == [ headers |-> NoHeaders, statusCode |-> 0, headWritten |-> FALSE,
            body |-> <<>>, ends |-> 0, proxied |-> <<>> ]

ResSetHeader(res, k, v) == [res EXCEPT !.headers = HSet(res.headers, k, v)]

ResWriteHead(res, code) == [res EXCEPT !.statusCode = code, !.headWritten = TRUE]

ResWrite(res, chunk) == [res EXCEPT !.headWritten = TRUE, !.body = @ \o chunk]

\* res.end(data): the number of calls is kept, data after the first end is lost
ResEnd(res, data) ==
  [res EXCEPT !.headWritten = TRUE, !.ends = @ + 1,
              !.body = IF res.ends = 0 THEN @ \o data ELSE @]

\* isResSent
IsResSent(res) == res.ends > 0 \/ res.headWritten

\* sendResponse: writes the payload unless the response was already sent
SendResponse(res, payload) == IF IsResSent(res) THEN res ELSE ResEnd(res, payload)

\* render404: status 404 and the error page
Render404(res) == SendResponse([res EXCEPT !.statusCode = 404], <<"<404>">>)

\* renderError: the error page for the status the response has
RenderError(res) == SendResponse(res, <<"<error>">>)

\* serveStatic: the static-file collaborator answers the request
ServeStatic(res) == SendResponse(res, <<"<file>">>)

\* render(): the page-render collaborator answers the request
RenderPage(res) == SendResponse(res, <<"<page>">>)

(***************************************************************************)
(* Query strings                                                           *)
(***************************************************************************)
QKey(tok) ==
  IF tok \in {"q=1", "q=2"} THEN "q"
  ELSE IF tok = "_nextBubbleNoFallback=1" THEN "_nextBubbleNoFallback" ELSE tok

QVal(tok) ==
  IF tok \in {"q=1", "_nextBubbleNoFallback=1"} THEN <<"1">>
  ELSE IF tok = "q=2" THEN <<"2">> ELSE <<>>

RECURSIVE ParseQs(_)
\* querystring.parse of the text after '?'
ParseQs(search) ==
  IF search = <<>> THEN NoHeaders
  ELSE LET rest == ParseQs(SubSeq(search, 1, Len(search) - 1))
           tok == search[Len(search)]
       IN IF tok = "&" THEN rest ELSE HSet(rest, QKey(tok), QVal(tok))

\* { ...a, ...b }
Merge(a, b) == HCopyAll(a, b)

(***************************************************************************)
(* Route matching                                                          *)
(***************************************************************************)
\* route('<prefix>/:path*'): the prefix itself or anything below it
PrefixMatch(p, prefix) ==
  \/ p = prefix
  \/ StartsWith(p, prefix \o <<"/">>)

\* route('/:path*')
AnyPathMatch(p) == StartsWith(p, <<"/">>)

\* getRouteMatcher(getEdgeFunctionRegex(page)): ^/(?!_next).*$ for the root
\* function, ^<page>(?:(/.*)?)$ for the others
EdgeMatch(page, p) ==
  IF page = <<"/">>
  THEN StartsWith(p, <<"/">>) /\ ~StartsWith(p, <<"/", "_next">>)
  ELSE PrefixMatch(p, page)

\* a dynamic page <dir>/[id]: one more segment below dir
DynamicMatch(dir, p) ==
  /\ Len(p) = Len(dir) + 2
  /\ SubSeq(p, 1, Len(dir) + 1) = dir \o <<"/">>
  /\ p[Len(p)] # "/"

\* replaceBasePath (router.ts)
replaceBasePath(basePath, pathname) ==
  LET r == ReplaceFirst(pathname, basePath) IN IF r = <<>> THEN <<"/">> ELSE r

\* Server.handleRequest: the base path is taken off req.url
\*   if (basePath && req.url?.startsWith(basePath)) {
\*     req._nextHadBasePath = true; req.url = req.url.replace(basePath, '') || '/' }
handleRequestBasePath(url, basePath) ==
  LET hadBasePath == basePath # <<>> /\ StartsWith(url, basePath)
      stripped == ReplaceFirst(url, basePath)
  IN [ hadBasePath |-> hadBasePath,
       url |-> IF hadBasePath THEN (IF stripped = <<>> THEN <<"/">> ELSE stripped)
               ELSE url ]

\* removePathTrailingSlash
removePathTrailingSlash(p) ==
  IF Len(p) > 1 /\ p[Len(p)] = "/" THEN SubSeq(p, 1, Len(p) - 1) ELSE p

QTok(k, v) ==
  IF k = "q" THEN (IF v = <<"1">> THEN "q=1" ELSE "q=2")
  ELSE IF k = "_nextBubbleNoFallback" /\ v = <<"1">> THEN "_nextBubbleNoFallback=1"
  ELSE k

QKeyOrder == <<"q", "_nextBubbleNoFallback", "_nextDataReq">>

RECURSIVE StringifyFrom(_, _)
StringifyFrom(q, i) ==
  IF i > Len(QKeyOrder) THEN <<>>
  ELSE LET rest == StringifyFrom(q, i + 1)
           k == QKeyOrder[i]
       IN IF ~HHas(q, k) THEN rest
          ELSE IF rest = <<>> THEN <<QTok(k, q[k])>>
          ELSE <<QTok(k, q[k]), "&">> \o rest

\* stringifyQuery (next-server.ts): querystring.stringify of the query
stringifyQuery(query) == StringifyFrom(query, 1)

\* url.format of a parsed destination whose search was set
formatUrl(pathname, search) ==
  IF search = <<>> THEN pathname ELSE pathname \o <<"?">> \o search

\* prepareDestination(destination, {}, query, append): the target parsed
\* into its path and its own query
prepareDestination(destination, query) ==
  [ external |-> ~StartsWith(destination, <<"/">>),
    newUrl |-> UrlPath(destination),
    pathname |-> UrlPath(destination),
    query |-> ParseQs(UrlSearch(destination)) ]

\* getRedirectStatus
getRedirectStatus(statusCode) == IF statusCode # 0 THEN statusCode ELSE 307

(***************************************************************************)
(* Routes (Server.generateRoutes, Router.execute's allRoutes)              *)
(***************************************************************************)
Route(type, name, kind, src, check, requireBasePath, dest, code, key, val) ==
  [ type |-> type, name |-> name, kind |-> kind, src |-> src, check |-> check,
    requireBasePath |-> requireBasePath, dest |-> dest, statusCode |-> code,
    key |-> key, val |-> val ]

SeqMap(F(_), s) == [i \in 1..Len(s) |-> F(s[i])]

\* x.has, the empty list standing for undefined
HasOf(x) == IF "has" \in DOMAIN x THEN x.has ELSE <<>>

\* one `has` item against the request: the value the item looks at
HasValue(item, query) == HGet(query, item.key)

\* a `has` item matches: without a value of its own when the request has
\* one, with a value when the request's is that value
HasItemMatches(item, query) ==
  IF item.value = <<>> THEN HasValue(item, query) # <<>>
  ELSE HasValue(item, query) = item.value

RECURSIVE HasParams(_, _)
\* the values captured by the `has` items: an item without a value of its
\* own captures the request's under its key
HasParams(has, query) ==
  IF has = <<>> THEN NoHeaders
  ELSE LET rest == HasParams(Tail(has), query)
           item == Head(has)
       IN IF item.value = <<>> THEN HSet(rest, item.key, HasValue(item, query))
          ELSE rest

\* matchHas(req, has, query): the captured params, or false
matchHas(has, query) ==
  [ ok |-> \A i \in DOMAIN has : HasItemMatches(has[i], query),
    params |-> HasParams(has, query) ]

RECURSIVE compileNonPath(_, _)
\* compileNonPath(value, params): every `:name` of the value is replaced by
\* the param of that name
compileNonPath(value, params) ==
  IF value = <<>> THEN <<>>
  ELSE (IF Head(value) = ":q" /\ HHas(params, "q") THEN params["q"] ELSE <<Head(value)>>)
       \o compileNonPath(Tail(value), params)

\* this.customRoutes.headers.map((r) => ({ match, has: r.has, ... }))
HeaderRoute(h) ==
  Route("header", "header route", "header", h.src, FALSE, TRUE, <<>>, 0, h.key, h.val)
  @@ [has |-> HasOf(h)]

\* this.customRoutes.redirects.map((redirect) => ({ match, has: redirect.has, ... }))
RedirectRoute(r) ==
  Route("redirect", "Redirect route", "redirect", r.src, FALSE, TRUE, r.dest, r.statusCode, "", <<>>)
  @@ [has |-> HasOf(r)]

\* getRewriteRoute(rewrite, check)
RewriteRouteCheck(r) ==
  Route("rewrite", "Rewrite route", "rewrite", r.src, TRUE, TRUE, r.dest, 0, "", <<>>)

RewriteRouteNoCheck(r) ==
  Route("rewrite", "Rewrite route", "rewrite", r.src, FALSE, TRUE, r.dest, 0, "", <<>>)

FsRoute(name, kind, src) == Route("route", name, kind, src, FALSE, TRUE, <<>>, 0, "", <<>>)

NextStatic == <<"/", "_next", "/", "static">>
NextData == <<"/", "_next", "/", "data">>
NextImage == <<"/", "_next", "/", "image">>
NextDir == <<"/", "_next">>
StaticDir == <<"/", "static">>

\* fsRoutes of generateRoutes
fsRoutes(c) ==
  << FsRoute("_next/static catchall", "static", NextStatic),
     FsRoute("_next/data catchall", "data", NextData),
     FsRoute("_next/image catchall", "image", NextImage),
     FsRoute("_next catchall", "nextGuard", NextDir) >>
  \o (IF c.hasPublicDir THEN <<FsRoute("public folder catchall", "public", <<"/">>)>> ELSE <<>>)
  \o (IF c.hasStaticDir THEN <<FsRoute("static catchall", "staticDir", StaticDir)>> ELSE <<>>)

catchAllEdgeFunctions ==
  Route("route", "catchall for edge functions", "edge", <<"/">>, FALSE, TRUE, <<>>, 0, "", <<>>)

pageCheckerRoute ==
  Route("route", "page checker", "pageChecker", <<"/">>, FALSE, FALSE, <<>>, 0, "", <<>>)

dynamicCheckRoute ==
  Route("route", "dynamic route/page check", "dynCheck", <<"/">>, FALSE, FALSE, <<>>, 0, "", <<>>)

catchAllRoute ==
  Route("route", "Catchall render", "catchAll", <<"/">>, FALSE, TRUE, <<>>, 0, "", <<>>)

\* the custom routes are dropped in minimal mode
CustomOf(c, rs) == IF c.minimalMode THEN <<>> ELSE rs

allRoutesCheckerFirst(c) ==
  SeqMap(HeaderRoute, CustomOf(c, c.headers))
  \o SeqMap(RedirectRoute, CustomOf(c, c.redirects))
  \o SeqMap(RewriteRouteNoCheck, CustomOf(c, c.beforeFiles))
  \o fsRoutes(c)
  \o (IF c.useFileSystemPublicRoutes THEN <<pageCheckerRoute>> ELSE <<>>)
  \o (IF c.useFileSystemPublicRoutes THEN <<catchAllEdgeFunctions>> ELSE <<>>)
  \o SeqMap(RewriteRouteCheck, CustomOf(c, c.afterFiles))
  \o (IF CustomOf(c, c.fallback) # <<>>
      THEN <<dynamicCheckRoute>> \o SeqMap(RewriteRouteCheck, c.fallback)
      ELSE <<>>)
  \o (IF c.useFileSystemPublicRoutes THEN <<catchAllRoute>> ELSE <<>>)

\* const allRoutes = [...] of Router.execute
allRoutes(c) ==
  SeqMap(HeaderRoute, CustomOf(c, c.headers))
  \o SeqMap(RedirectRoute, CustomOf(c, c.redirects))
  \o SeqMap(RewriteRouteNoCheck, CustomOf(c, c.beforeFiles))
  \o fsRoutes(c)
  \o (IF c.useFileSystemPublicRoutes THEN <<catchAllEdgeFunctions>> ELSE <<>>)
  \o (IF c.useFileSystemPublicRoutes THEN <<pageCheckerRoute>> ELSE <<>>)
  \o SeqMap(RewriteRouteCheck, CustomOf(c, c.afterFiles))
  \o (IF CustomOf(c, c.fallback) # <<>>
      THEN <<dynamicCheckRoute>> \o SeqMap(RewriteRouteCheck, c.fallback)
      ELSE <<>>)
  \o (IF c.useFileSystemPublicRoutes THEN <<catchAllRoute>> ELSE <<>>)

customRouteTypes == {"rewrite", "redirect", "header"}

\* testRoute.match(currentPathname)
RouteMatch(t, p) ==
  CASE t.kind \in {"header", "redirect", "rewrite"} -> p = t.src
    [] t.kind \in {"static", "data", "image", "nextGuard", "staticDir"} -> PrefixMatch(p, t.src)
    [] OTHER -> AnyPathMatch(p)

\* the path has a malformed percent-encoding
Malformed(p) == \E i \in DOMAIN p : p[i] = "%"

\* testRoute.match throws DecodeError: the matcher decodes the params it
\* captured, and route('/:path*') captures the whole path
MatchThrows(t, p) ==
  /\ t.kind \notin {"header", "redirect", "rewrite", "static", "data", "image",
                    "nextGuard", "staticDir"}
  /\ Malformed(p)

\* execute: newParams, the params of the path match merged with the ones
\* `has` captured, or false (ok = FALSE)
\*   let newParams = testRoute.match(currentPathname)
\*   if (testRoute.has && newParams) { ... matchHas(req, testRoute.has, query) ... }
NewParams(t, p, query) ==
  IF ~RouteMatch(t, p) THEN [ok |-> FALSE, params |-> NoHeaders]
  ELSE IF HasOf(t) # <<>> THEN matchHas(HasOf(t), query)
  ELSE [ok |-> TRUE, params |-> NoHeaders]

\* hasPage: the pages manifest has the page
hasPage(c, p) == p \in c.pages

\* some dynamic route matches
DynamicRouteMatches(c, p) == \E d \in c.dynamicDirs : DynamicMatch(d, p)

(***************************************************************************)
(* Route handlers.  A handler result carries the RouteResult (finished,    *)
(* pathname?, query?), the outer response and request as the handler left  *)
(* them, the parsed URL's query as the handler left it (pq), and the error *)
(* it threw (err, "" when none).                                           *)
(***************************************************************************)
BubbleKey == "_nextBubbleNoFallback"

HR(finished, res, req, pq) ==
  [ finished |-> finished, setPath |-> FALSE, pathname |-> <<>>,
    setQuery |-> FALSE, query |-> NoHeaders, res |-> res, req |-> req,
    pq |-> pq, err |-> "" ]

HRThrow(res, req, pq, err) == [HR(FALSE, res, req, pq) EXCEPT !.err = err]

\* the handler of a header route
headerRouteFn(t, params, res, req, pq) ==
  LET hasParams == DOMAIN params # {}
      value == IF hasParams THEN compileNonPath(t.val, params) ELSE t.val
  IN HR(FALSE, ResSetHeader(res, t.key, value), req, pq)

\* getRedirectHandler({destination, statusCode})
getRedirectHandler(dest, statusCode, res, req, pq) ==
  LET pd == prepareDestination(dest, pq)
      updatedDestination == formatUrl(pd.pathname, stringifyQuery(pd.query))
      res1 == ResSetHeader(res, "location", updatedDestination)
      res2 == [res1 EXCEPT !.statusCode = getRedirectStatus(statusCode)]
      res3 == IF res2.statusCode = 308
              THEN ResSetHeader(res2, "refresh", <<"0;url=">> \o updatedDestination)
              ELSE res2
  IN HR(TRUE, ResEnd(res3, <<>>), req, pq)

\* getRewriteHandler({destination}); env.proxy is the outcome of the upstream
getRewriteHandler(dest, res, req, pq, env) ==
  LET pd == prepareDestination(dest, pq) IN
  IF pd.external
  THEN LET target == formatUrl(pd.pathname, stringifyQuery(pd.query)) IN
       IF env.proxy = "error" THEN HRThrow(res, req, pq, "ProxyError")
       ELSE HR(TRUE, ResEnd([res EXCEPT !.proxied = target], <<"<upstream>">>), req, pq)
  ELSE [ HR(FALSE, res,
            [req EXCEPT !.rewroteUrl = pd.newUrl, !.didRewrite = (pd.newUrl # req.url)],
            pq)
         EXCEPT !.setPath = TRUE, !.pathname = pd.newUrl,
                !.setQuery = TRUE, !.query = pd.query ]

RenderCallNeverBubbles(res, bubble, env) ==
  IF env.render = "noFallback" THEN [res |-> Render404(res), noFallback |-> FALSE]
  ELSE [res |-> RenderPage(res), noFallback |-> FALSE]

\* Server.render through renderToResponse: the render collaborator either
\* answers or finds no fallback for the path; NoFallbackError leaves
\* renderToResponse only when the bubble flag was in the query, otherwise it
\* is answered with the 404 page
RenderCall(res, bubble, env) ==
  IF env.render = "noFallback"
  THEN IF bubble THEN [res |-> res, noFallback |-> TRUE]
       ELSE [res |-> Render404(res), noFallback |-> FALSE]
  ELSE [res |-> RenderPage(res), noFallback |-> FALSE]

\* catchAllRoute.fn
catchAllRouteFn(res, req, pathname0, pq, env) ==
  LET pathname == removePathTrailingSlash(pathname0)
      bubbleNoFallback == HGet(pq, BubbleKey) # <<>>
  IN IF EndsWith(pathname, <<"/", "_edge">>)
     THEN HR(TRUE, Render404(res), req, pq)
     ELSE LET rc == RenderCall(res, bubbleNoFallback, env)
              pq1 == HDelete(pq, BubbleKey)
          IN IF rc.noFallback THEN HR(FALSE, rc.res, req, pq1)
             ELSE HR(TRUE, rc.res, req, pq1)

\* the '_next/data catchall' handler
dataRouteFn(c, res, req, p, pq, env) ==
  LET rest == SubSeq(p, Len(NextData) + 1, Len(p)) IN
  IF Len(rest) < 2 \/ rest[2] # c.buildId
  THEN HR(TRUE, Render404(res), req, pq)
  ELSE IF Len(rest) < 4 THEN HRThrow(res, req, pq, "TypeError")
  ELSE IF rest[Len(rest)] # ".json"
  THEN HR(TRUE, Render404(res), req, pq)
  ELSE LET rc == RenderCall(res, HGet(pq, BubbleKey) # <<>>, env) IN
       IF rc.noFallback THEN HRThrow(rc.res, req, pq, "NoFallbackError")
       ELSE HR(TRUE, rc.res, req, pq)

\* the 'public folder catchall' handler
publicRouteFn(c, res, req, p, pq) ==
  IF c.basePath # <<>> /\ ~PrefixMatch(p, c.basePath)
  THEN HR(FALSE, res, req, pq)
  ELSE LET stripped == SubSeq(p, Len(c.basePath) + 1, Len(p))
           path == IF stripped = <<>> THEN <<"/">> ELSE stripped
       IN IF path \in c.publicFiles
          THEN HR(TRUE, ServeStatic(res), req, pq)
          ELSE HR(FALSE, res, req, pq)

\* the handlers of the filesystem routes
fsRouteFn(t, c, res, req, p, pq, env) ==
  CASE t.kind = "static" ->
         IF p = NextStatic \/ p = NextStatic \o <<"/">>
         THEN HR(TRUE, Render404(res), req, pq)
         ELSE HR(TRUE, ServeStatic(res), req, pq)
    [] t.kind = "data" -> dataRouteFn(c, res, req, p, pq, env)
    [] t.kind = "image" -> HR(TRUE, ServeStatic(res), req, pq)
    [] t.kind = "nextGuard" -> HR(TRUE, Render404(res), req, pq)
    [] t.kind = "public" -> publicRouteFn(c, res, req, p, pq)
    [] t.kind = "staticDir" -> HR(TRUE, ServeStatic(res), req, pq)

\* the 'page checker' handler
pageCheckerFn(c, res, req, p, pq, env) ==
  LET pathname == removePathTrailingSlash(p) IN
  IF hasPage(c, pathname) THEN catchAllRouteFn(res, req, p, pq, env)
  ELSE HR(FALSE, res, req, pq)

\* one entry of the handler history
HEvent(name, finished) == [name |-> name, finished |-> finished]

RECURSIVE FsLoop(_, _, _, _, _, _, _, _)
RECURSIVE FsLoopStep(_, _, _, _, _, _, _, _)
\* applyCheckTrue: the body of the loop once fsRoute.fn returned r
FsLoopStep(c, i, fsPathname, r, req, pq, env, hl) ==
  IF r.err # ""
  THEN [finished |-> FALSE, res |-> r.res, err |-> r.err,
        hlog |-> Append(hl, HEvent(fsRoutes(c)[i].name, r.finished))]
  ELSE IF r.finished
  THEN [finished |-> TRUE, res |-> r.res, err |-> "",
        hlog |-> Append(hl, HEvent(fsRoutes(c)[i].name, r.finished))]
  ELSE FsLoop(c, i + 1, fsPathname, r.res, req, pq, env,
              Append(hl, HEvent(fsRoutes(c)[i].name, r.finished)))

\* applyCheckTrue: for (const fsRoute of this.fsRoutes) ...
FsLoop(c, i, fsPathname, res, req, pq, env, hl) ==
  IF i > Len(fsRoutes(c)) THEN [finished |-> FALSE, res |-> res, err |-> "", hlog |-> hl]
  ELSE IF ~RouteMatch(fsRoutes(c)[i], fsPathname)
       THEN FsLoop(c, i + 1, fsPathname, res, req, pq, env, hl)
       ELSE FsLoopStep(c, i, fsPathname,
                       fsRouteFn(fsRoutes(c)[i], c, res, req, fsPathname, pq, env),
                       req, pq, env, hl)

\* applyCheckTrue: the page check once catchAllRoute.fn returned r
CheckTruePage(fsPathname, r, hl) ==
  [ finished |-> r.finished,
    parsed |-> [pathname |-> fsPathname, query |-> r.pq],
    res |-> r.res, err |-> r.err,
    hlog |-> Append(hl, HEvent(catchAllRoute.name, r.finished)) ]

\* applyCheckTrue after the loop over the filesystem routes returned fs
CheckTrueAfterFs(c, parsed, fsPathname, fs, req, env) ==
  IF fs.err # "" \/ fs.finished
  THEN [finished |-> fs.finished, parsed |-> [parsed EXCEPT !.pathname = fsPathname],
        res |-> fs.res, err |-> fs.err, hlog |-> fs.hlog]
  ELSE IF hasPage(c, fsPathname) \/ DynamicRouteMatches(c, fsPathname)
  THEN CheckTruePage(fsPathname,
                     catchAllRouteFn(fs.res, req, fsPathname,
                                     HSet(parsed.query, BubbleKey, <<"1">>), env),
                     fs.hlog)
  ELSE [finished |-> FALSE, parsed |-> parsed, res |-> fs.res, err |-> "",
        hlog |-> fs.hlog]

\* applyCheckTrue(checkParsedUrl)
applyCheckTrue(c, parsed, res, req, env) ==
  CheckTrueAfterFs(c, parsed, replaceBasePath(c.basePath, parsed.pathname),
                   FsLoop(c, 1, replaceBasePath(c.basePath, parsed.pathname),
                          res, req, parsed.query, env, <<>>),
                   req, env)

(***************************************************************************)
(* State of one request                                                    *)
(***************************************************************************)
VARIABLES
  cfg,          \* the server: next.config, manifests, route tables (fixed)
  req,          \* the IncomingMessage: url, method, flags set while routing
  parsed,       \* the parsed URL shared by the routes: pathname, query
  res,          \* the outer ServerResponse
  pc,           \* where the request is
  ri,           \* Router.execute: index of the route under test
  savedPathname,\* Router.execute: originalPathname of the running handler
  stack,        \* runEdgeFunctions: the activations, innermost last
  pipeRes,      \* the result runEdgeFunctions returned to the catch-all
  err,          \* the error in flight, "" when none
  outcome,      \* how handleRequest ended
  invocations,  \* history: the edge functions tried, in order
  userSet,      \* history: the user headers set by invoked edge functions
  hlog,         \* history: the route handlers invoked, in order
  edgeRes,      \* the EdgeResponse a handler is driving call by call
  edgeCalls     \* history: the API calls that handler made, in order

vars == << cfg, req, parsed, res, pc, ri, savedPathname, stack, pipeRes, err,
           outcome, invocations, userSet, hlog, edgeRes, edgeCalls >>

\* the state of a handler followed call by call (see the section on the
\* EdgeResponse API below); the request routing leaves it alone
apiVars == << edgeRes, edgeCalls >>

routerVars == << parsed, res, req, pc, ri, err, hlog, outcome >>

Env == [ render : {"sent", "noFallback"}, proxy : {"ok", "error"} ]

Frame(prevCalls, pathname) ==
  [ prevCalls |-> prevCalls, calls |-> prevCalls, pathname |-> pathname,
    idx |-> 1, result |-> NoResult, st |-> "loop", ret |-> NoResult ]

Top == stack[Len(stack)]

SetTop(f) == [stack EXCEPT ![Len(stack)] = f]

isPreflight == req.preflight /\ req.method = "OPTIONS"

(***************************************************************************)
(* Server.handleRequest up to run()                                        *)
(***************************************************************************)
HandleRequest ==
  /\ pc = "start"
  /\ parsed' = [pathname |-> UrlPath(req.url), query |-> ParseQs(UrlSearch(req.url))]
  /\ req' = [req EXCEPT !.hadBasePath = handleRequestBasePath(req.url, cfg.basePath).hadBasePath,
                        !.url = handleRequestBasePath(req.url, cfg.basePath).url]
  /\ res' = [res EXCEPT !.statusCode = 200]
  /\ pc' = "route"
  /\ ri' = 1
  /\ UNCHANGED << cfg, savedPathname, stack, pipeRes, err, outcome,
                  invocations, userSet, hlog >>
  /\ UNCHANGED apiVars

(***************************************************************************)
(* Router.execute                                                          *)
(***************************************************************************)
keepBasePathOf(t) == t.type \in customRouteTypes \/ t.name = "public folder catchall"

\* the pathname a route is matched against
CurrentPathname(c, t, rq, pu) ==
  LET isCustomRoute == t.type \in customRouteTypes
      keepBasePath == keepBasePathOf(t)
      noBasePath == replaceBasePath(c.basePath, pu.pathname)
      activeBasePath == IF keepBasePath THEN c.basePath ELSE <<>>
  IN IF isCustomRoute THEN pu.pathname
     ELSE (IF rq.hadBasePath THEN activeBasePath ELSE <<>>)
          \o (IF activeBasePath # <<>> /\ noBasePath = <<"/">> THEN <<>> ELSE noBasePath)

originallyHadBasePath == cfg.basePath = <<>> \/ req.hadBasePath

\* a non-custom route matched a request that did not carry the base path
BasePathMissing(t) ==
  ~keepBasePathOf(t) /\ ~originallyHadBasePath /\ ~req.didRewrite

\* what execute does with the result of a handler; hl: the handlers invoked
ParsedAfterNoPath(t, originalPathname, hr) ==
  [ pathname |-> IF ~keepBasePathOf(t) THEN originalPathname ELSE parsed.pathname,
    query |-> IF hr.setQuery THEN Merge(hr.pq, hr.query) ELSE hr.pq ]

\* execute: the parsed URL after a handler that did not finish returned hr
ParsedAfter(t, originalPathname, hr) ==
  [ pathname |-> IF hr.setPath THEN hr.pathname
                 ELSE IF ~keepBasePathOf(t) THEN originalPathname ELSE parsed.pathname,
    query |-> IF hr.setQuery THEN Merge(hr.pq, hr.query) ELSE hr.pq ]

\* if (testRoute.check === true) { if (await applyCheckTrue(parsedUrlUpdated)) return true }
CompleteCheck(act, hr, hl) ==
  /\ res' = act.res /\ req' = hr.req /\ parsed' = act.parsed
  /\ hlog' = hl \o act.hlog
  /\ IF act.err # "" THEN /\ pc' = "error" /\ err' = act.err
                          /\ UNCHANGED << ri, outcome >>
     ELSE IF act.finished THEN /\ pc' = "done" /\ outcome' = "matched"
                               /\ UNCHANGED << ri, err >>
     ELSE /\ ri' = ri + 1 /\ pc' = "route" /\ UNCHANGED << err, outcome >>

ExecuteStopsNever(hr) == FALSE

\* if (result.finished) { return true }
ExecuteStops(hr) == hr.finished

\* execute after `const result = await testRoute.fn(...)` returned hr
Complete(t, originalPathname, hr, env, hl) ==
  IF hr.err # ""
  THEN /\ pc' = "error" /\ err' = hr.err /\ res' = hr.res /\ req' = hr.req
       /\ hlog' = hl /\ UNCHANGED << parsed, ri, outcome >>
  ELSE IF ExecuteStops(hr)
  THEN /\ pc' = "done" /\ outcome' = "matched" /\ res' = hr.res /\ req' = hr.req
       /\ parsed' = [parsed EXCEPT !.query = hr.pq]
       /\ hlog' = hl /\ UNCHANGED << ri, err >>
  ELSE IF t.check
  THEN CompleteCheck(applyCheckTrue(cfg, ParsedAfter(t, originalPathname, hr),
                                    hr.res, hr.req, env), hr, hl)
  ELSE /\ res' = hr.res /\ req' = hr.req /\ parsed' = ParsedAfter(t, originalPathname, hr)
       /\ hlog' = hl
       /\ ri' = ri + 1 /\ pc' = "route" /\ UNCHANGED << err, outcome >>

\* the handler of a route other than the edge catch-all
RouteFn(t, cur, pu, env) ==
  CASE t.kind = "header" -> headerRouteFn(t, NewParams(t, cur, pu.query).params, res, req, pu.query)
    [] t.kind = "redirect" ->
         getRedirectHandler(compileNonPath(t.dest, NewParams(t, cur, pu.query).params),
                            t.statusCode, res, req, pu.query)
    [] t.kind = "rewrite" -> getRewriteHandler(t.dest, res, req, pu.query, env)
    [] t.kind = "pageChecker" -> pageCheckerFn(cfg, res, req, pu.pathname, pu.query, env)
    [] t.kind = "catchAll" -> catchAllRouteFn(res, req, pu.pathname, pu.query, env)
    [] OTHER -> fsRouteFn(t, cfg, res, req, cur, pu.query, env)

\* execute once the handler of route t returned hr
Returned(t, hr, env) ==
  Complete(t, parsed.pathname, hr, env, Append(hlog, HEvent(t.name, hr.finished)))

\* execute once the dynamic-route checker returned act
ReturnedCheck(t, act, env) ==
  Complete(t, parsed.pathname,
           [HR(act.finished, act.res, req, act.parsed.query) EXCEPT !.err = act.err],
           env,
           hlog \o (IF act.hlog # <<>> THEN act.hlog
                    ELSE <<HEvent(t.name, act.finished)>>))

\* the parsed URL the handler of route t is given
ParsedFor(t) ==
  IF keepBasePathOf(t) THEN parsed
  ELSE [parsed EXCEPT !.pathname = CurrentPathname(cfg, t, req, parsed)]

RouteStepOf(t, cur) ==
  /\ t.kind # "edge" \/ ~RouteMatch(t, cur) \/ BasePathMissing(t) \/ MatchThrows(t, cur)
  /\ IF MatchThrows(t, cur)
     THEN /\ pc' = "error" /\ err' = "DecodeError"
          /\ UNCHANGED << parsed, res, req, ri, hlog, outcome >>
     ELSE IF ~NewParams(t, cur, parsed.query).ok
     THEN /\ ri' = ri + 1
          /\ UNCHANGED << parsed, res, req, pc, err, hlog, outcome >>
     ELSE IF BasePathMissing(t)
     THEN /\ IF t.requireBasePath
             THEN pc' = "unmatched" /\ ri' = ri
             ELSE pc' = pc /\ ri' = ri + 1
          /\ UNCHANGED << parsed, res, req, err, hlog, outcome >>
     ELSE IF t.kind = "dynCheck"
     THEN \E env \in Env :
            ReturnedCheck(t, applyCheckTrue(cfg, ParsedFor(t), res, req, env), env)
     ELSE \E env \in Env :
            Returned(t, RouteFn(t, cur, ParsedFor(t), env), env)

\* one iteration of `for (const testRoute of allRoutes)` for every route but
\* the edge catch-all
RouteStep ==
  /\ pc = "route"
  /\ ri <= Len(allRoutes(cfg))
  /\ RouteStepOf(allRoutes(cfg)[ri],
                 CurrentPathname(cfg, allRoutes(cfg)[ri], req, parsed))
  /\ UNCHANGED << cfg, savedPathname, stack, pipeRes, invocations, userSet >>
  /\ UNCHANGED apiVars

\* Server.run after execute returned false
RunNotMatched ==
  /\ \/ pc = "unmatched"
     \/ pc = "route" /\ ri > Len(allRoutes(cfg))
  /\ res' = Render404(res)
  /\ pc' = "done"
  /\ outcome' = "notFound"
  /\ UNCHANGED << cfg, req, parsed, ri, savedPathname, stack, pipeRes, err,
                  invocations, userSet, hlog >>
  /\ UNCHANGED apiVars

RunCatchesNothing(e) == FALSE

\* Server.run: if (err instanceof DecodeError) { ... } throw err
RunCatches(e) == e = "DecodeError"

\* the catch of Server.run around execute, then the catch of
\* Server.handleRequest around run(); outcome "error500" is the branch that
\* logs the error
HandleRequestCatch ==
  /\ pc = "error"
  /\ IF RunCatches(err)
     THEN /\ outcome' = "badRequest"
          /\ res' = RenderError([res EXCEPT !.statusCode = 400])
     ELSE IF cfg.minimalMode
     THEN outcome' = "rethrown" /\ res' = res
     ELSE /\ outcome' = "error500"
          /\ res' = ResEnd([res EXCEPT !.statusCode = 500], <<"Internal Server Error">>)
  /\ pc' = "done"
  /\ UNCHANGED << cfg, req, parsed, ri, savedPathname, stack, pipeRes, err,
                  invocations, userSet, hlog >>
  /\ UNCHANGED apiVars

(***************************************************************************)
(* Server.runEdgeFunctions and Server.runEdgeFunction                      *)
(***************************************************************************)
\* if (prevCalls > 5) throw new Error('Too many Edge Function recursive calls')
TooManyCallsLate(prevCalls) == prevCalls > MaxEdgeCalls + 2

TooManyCalls(prevCalls) == prevCalls > MaxEdgeCalls

\* hasEdgeFunction / getEdgeFunctionPath as runEdgeFunction uses them: the
\* module of the function can be resolved
EdgeFunctionFound(c, i) == i \in c.found

\* the next function at or after idx whose matcher accepts the pathname
NextMatch(c, f) ==
  LET ms == { i \in f.idx..Len(c.edgeFns) : EdgeMatch(c.edgeFns[i], f.pathname) }
  IN IF ms = {} THEN 0 ELSE CHOOSE i \in ms : \A j \in ms : i <= j

\* response: { headers: result?.response.headers } after the sentinel of the
\* previous function was deleted
InheritedHeaders(result) ==
  IF IsResult(result) THEN HDelete(result.headers, XNext) ELSE NoHeaders

\* calls += 1 after runEdgeFunction returned, whatever it returned
CountCall(calls) == calls + 1

\* the pathname of an internal rewrite as the pipeline compares it
RewrittenPathname(c, rewrite) ==
  LET p0 == prepareDestination(rewrite, NoHeaders).pathname IN
  IF c.basePath # <<>> THEN replaceBasePath(c.basePath, p0) ELSE p0

\* the result asks for a nested run
NeedsNestedRun(c, f, r) ==
  LET rewrite == HGet(r.headers, XRewrite) IN
  /\ StartsWith(rewrite, <<"/">>)
  /\ RewrittenPathname(c, rewrite) # f.pathname
  /\ \E i \in 1..Len(c.edgeFns) : EdgeMatch(c.edgeFns[i], RewrittenPathname(c, rewrite))

\* result?.response.headers.set('x-nextjs-functions', `${calls}`); return result
FinalResult(f) ==
  IF IsResult(f.result)
  THEN [f.result EXCEPT !.headers = HSet(@, XFunctions, NumStr(f.calls))]
  ELSE NoResult

\* if (!nextResult?.response.headers.get('x-nextjs-next')) return nextResult
ReturnsNested(v) == ~IsResult(v) \/ HGet(v.headers, XNext) = <<>>

\* the user headers this invocation set
HeadersSetBy(before, r) ==
  { k \in UserHeaders : HHas(r.headers, k) /\ (~HHas(before, k) \/ before[k] # r.headers[k]) }

\* one entry of the invocation history; nested: the invocation ended with an
\* internal rewrite that asks for a nested run
Invocation(fn, depth, found, r, nested) ==
  [ fn |-> fn, depth |-> depth, found |-> found,
    next |-> found /\ HHas(r.headers, XNext), nested |-> nested ]

ChainContinuesAlways(r) == TRUE

\* if (!result.response.headers.has('x-nextjs-next')) { ... break }
ChainContinues(r) == HHas(r.headers, XNext)

\* runEdgeFunctions once runEdgeFunction returned r for function i; f1 is the
\* activation after `calls += 1`
EdgeInvoked(i, before, r, f1) ==
  /\ invocations' = Append(invocations,
                           Invocation(i, Len(stack), TRUE, r,
                                      ~HHas(r.headers, XNext) /\ NeedsNestedRun(cfg, Top, r)))
  /\ userSet' = [k \in DOMAIN userSet \cup HeadersSetBy(before, r) |->
                   IF k \in HeadersSetBy(before, r) THEN r.headers[k] ELSE userSet[k]]
  /\ IF r.event = "none"
     THEN /\ pc' = "hung" /\ stack' = SetTop(f1) /\ err' = err
     ELSE IF ChainContinues(r)
     THEN /\ stack' = SetTop(f1) /\ pc' = pc /\ err' = err
     ELSE IF NeedsNestedRun(cfg, Top, r)
     THEN IF TooManyCalls(f1.calls)
          THEN /\ pc' = "error" /\ err' = "TooManyEdgeCalls"
               /\ stack' = <<>>
          ELSE /\ stack' = Append(SetTop([f1 EXCEPT !.st = "wait"]),
                                  Frame(f1.calls, RewrittenPathname(cfg, HGet(r.headers, XRewrite))))
               /\ pc' = pc /\ err' = err
     ELSE /\ stack' = SetTop([f1 EXCEPT !.st = "break"])
          /\ pc' = pc /\ err' = err

EdgeInvokeWith(i, before, r) ==
  EdgeInvoked(i, before, r,
              [Top EXCEPT !.result = r, !.calls = CountCall(Top.calls), !.idx = i + 1])

\* one iteration of the loop over the edge functions: a matching function
\* that is found is invoked
EdgeInvoke ==
  /\ pc = "edge"
  /\ Top.st = "loop"
  /\ NextMatch(cfg, Top) # 0
  /\ EdgeFunctionFound(cfg, NextMatch(cfg, Top))
  /\ \E prog \in Programs(IF Len(invocations) < MaxRich THEN MaxOps ELSE 1) :
       EdgeInvokeWith(NextMatch(cfg, Top), InheritedHeaders(Top.result),
                      Adapter(InheritedHeaders(Top.result), req.method, cfg.basePath, prog))
  /\ UNCHANGED << cfg, req, parsed, res, ri, savedPathname, pipeRes, outcome, hlog >>
  /\ UNCHANGED apiVars

\* one iteration of the loop: a matching function whose module is not found
EdgeSkip ==
  /\ pc = "edge"
  /\ Top.st = "loop"
  /\ LET i == NextMatch(cfg, Top) IN
     /\ i # 0
     /\ ~EdgeFunctionFound(cfg, i)
     /\ stack' = SetTop([Top EXCEPT !.result = NoResult,
                                    !.calls = CountCall(Top.calls),
                                    !.idx = i + 1])
     /\ invocations' = Append(invocations, Invocation(i, Len(stack), FALSE, NoResult, FALSE))
  /\ UNCHANGED << cfg, req, parsed, res, pc, ri, savedPathname, pipeRes, err,
                  outcome, userSet, hlog >>
  /\ UNCHANGED apiVars

\* an activation of runEdgeFunctions returns to its caller
EdgeReturn ==
  /\ pc = "edge"
  /\ \/ Top.st \in {"break", "ret"}
     \/ Top.st = "loop" /\ NextMatch(cfg, Top) = 0
  /\ LET v == IF Top.st = "ret" THEN Top.ret ELSE FinalResult(Top) IN
     IF Len(stack) = 1
     THEN /\ pipeRes' = v /\ pc' = "edgeDone" /\ stack' = <<>>
     ELSE LET caller == stack[Len(stack) - 1]
              caller1 == IF ReturnsNested(v)
                         THEN [caller EXCEPT !.st = "ret", !.ret = v]
                         ELSE [caller EXCEPT !.st = "break"]
          IN /\ stack' = Append(SubSeq(stack, 1, Len(stack) - 2), caller1)
             /\ pc' = pc /\ pipeRes' = pipeRes
  /\ UNCHANGED << cfg, req, parsed, res, ri, savedPathname, err, outcome,
                  invocations, userSet, hlog >>
  /\ UNCHANGED apiVars

(***************************************************************************)
(* The 'catchall for edge functions' route                                 *)
(***************************************************************************)
RECURSIVE Flatten(_)
Flatten(chunks) == IF chunks = <<>> THEN <<>> ELSE Head(chunks) \o Flatten(Tail(chunks))

CopyResultHeadersNone(rs, result) == rs

\* for (const [key, value] of result.response.headers.entries()) res.setHeader(key, value)
CopyResultHeaders(rs, result) == [rs EXCEPT !.headers = HCopyAll(rs.headers, result.headers)]

\* the status the catch-all answers a streamed or buffered body with
BodyStatus(rs, result) == rs.statusCode

RedirectStatusNone(result) == 0

\* getRedirectHandler({ destination: location, statusCode: result.response.statusCode })
RedirectStatusOf(result) == result.statusCode

\* the handler after runEdgeFunctions returned `result`; hang: the handler
\* waits for ever on a stream that is never closed
edgeCatchAllFn(result, preflight, rs, rq, pq, env) ==
  IF ~IsResult(result) THEN [hr |-> HR(FALSE, rs, rq, pq), hang |-> FALSE]
  ELSE
    LET res1 == CopyResultHeaders(rs, result)
        location == HGet(result.headers, XRedirect)
        rewrite == HGet(result.headers, XRewrite)
    IN IF preflight
       THEN [hr |-> HR(TRUE, ResEnd(ResWriteHead(res1, 200), <<>>), rq, pq), hang |-> FALSE]
       ELSE IF result.event = "streaming"
       THEN LET res2 == ResWrite(ResWriteHead(res1, BodyStatus(res1, result)), Flatten(result.chunks))
            IN IF result.closed
               THEN [hr |-> HR(TRUE, ResEnd(res2, <<>>), rq, pq), hang |-> FALSE]
               ELSE [hr |-> HR(FALSE, res2, rq, pq), hang |-> TRUE]
       ELSE IF location # <<>>
       THEN [hr |-> getRedirectHandler(location, RedirectStatusOf(result), res1, rq, pq), hang |-> FALSE]
       ELSE IF rewrite # <<>>
       THEN [hr |-> getRewriteHandler(rewrite, res1, rq, pq, env), hang |-> FALSE]
       ELSE IF result.event = "data"
       THEN [hr |-> HR(TRUE, ResEnd([res1 EXCEPT !.statusCode = BodyStatus(res1, result)], result.body), rq, pq),
             hang |-> FALSE]
       ELSE [hr |-> HR(FALSE, res1, rq, pq), hang |-> FALSE]

\* the edge catch-all matched: its handler calls runEdgeFunctions
EdgeCatchAllStart ==
  /\ pc = "route"
  /\ ri <= Len(allRoutes(cfg))
  /\ LET t == allRoutes(cfg)[ri]
         cur == CurrentPathname(cfg, t, req, parsed)
     IN /\ t.kind = "edge"
        /\ ~MatchThrows(t, cur)
        /\ RouteMatch(t, cur)
        /\ ~BasePathMissing(t)
        /\ savedPathname' = parsed.pathname
        /\ parsed' = [parsed EXCEPT !.pathname = cur]
        /\ IF TooManyCalls(0)
           THEN pc' = "error" /\ err' = "TooManyEdgeCalls" /\ stack' = <<>>
           ELSE pc' = "edge" /\ err' = err /\ stack' = <<Frame(0, cur)>>
  /\ UNCHANGED << cfg, req, res, ri, pipeRes, outcome, invocations, userSet, hlog >>
  /\ UNCHANGED apiVars

EdgeCatchAllDone(x, env) ==
  IF x.hang
  THEN /\ pc' = "hung" /\ res' = x.hr.res
       /\ UNCHANGED << parsed, req, ri, err, hlog, outcome >>
  ELSE Complete(catchAllEdgeFunctions, savedPathname, x.hr, env,
                Append(hlog, HEvent(catchAllEdgeFunctions.name, x.hr.finished)))

\* runEdgeFunctions returned: the rest of the handler, then execute goes on
EdgeCatchAllEnd ==
  /\ pc = "edgeDone"
  /\ \E env \in Env :
       EdgeCatchAllDone(edgeCatchAllFn(pipeRes, isPreflight, res, req, parsed.query, env), env)
  /\ UNCHANGED << cfg, savedPathname, stack, pipeRes, invocations, userSet >>
  /\ UNCHANGED apiVars

(***************************************************************************)
(* Servers and requests                                                    *)
(***************************************************************************)
PRoot == <<"/">>
PA == <<"/", "a">>
PB == <<"/", "b">>
BaseD == <<"/", "d">>

\* { type: 'query', key, value } of a `has` clause
HasItem(key, value) == [type |-> "query", key |-> key, value |-> value]

Server0 ==
  [ basePath |-> <<>>, minimalMode |-> FALSE, useFileSystemPublicRoutes |-> TRUE,
    edgeFns |-> <<PRoot>>, found |-> {1},
    headers |-> <<>>, redirects |-> <<>>, beforeFiles |-> <<>>, afterFiles |-> <<>>,
    fallback |-> <<>>, pages |-> {PB}, dynamicDirs |-> {}, publicFiles |-> {},
    hasPublicDir |-> FALSE, hasStaticDir |-> FALSE, buildId |-> "B" ]

EdgeSetups ==
  { [edgeFns |-> <<PRoot>>, found |-> {1}],
    [edgeFns |-> <<PRoot, PA>>, found |-> {1, 2}],
    [edgeFns |-> <<PRoot, PA>>, found |-> {2}],
    [edgeFns |-> <<PA, PRoot>>, found |-> {2}],
    [edgeFns |-> <<PA, PB>>, found |-> {1, 2}] }

WithEdge(c, e) == [c EXCEPT !.edgeFns = e.edgeFns, !.found = e.found]

Servers ==
  { WithEdge(Server0, e) : e \in EdgeSetups }
  \cup { [Server0 EXCEPT !.minimalMode = TRUE] }
  \cup { [Server0 EXCEPT !.basePath = BaseD] }
  \cup { [Server0 EXCEPT !.basePath = BaseD,
                         !.beforeFiles = <<[src |-> PA, dest |-> BaseD \o PB]>>] }
  \cup { [Server0 EXCEPT !.basePath = BaseD,
                         !.afterFiles = <<[src |-> BaseD \o PA, dest |-> BaseD \o PB],
                                          [src |-> PA, dest |-> BaseD \o PB]>>] }
  \cup { [Server0 EXCEPT !.afterFiles = <<[src |-> PB, dest |-> <<"/", "c">>]>>,
                         !.headers = <<[src |-> PA, key |-> "x-h", val |-> <<"1">>]>>] }
  \cup { [Server0 EXCEPT !.pages = {}, !.publicFiles = {PB}, !.hasPublicDir = TRUE] }
  \cup { [Server0 EXCEPT !.fallback = <<[src |-> PA, dest |-> PB]>>,
                         !.pages = {}, !.publicFiles = {PB}, !.hasPublicDir = TRUE] }
  \cup { [Server0 EXCEPT
            !.headers = <<[src |-> PA, key |-> "x-h", val |-> <<"v", ":q">>,
                           has |-> <<HasItem("q", <<>>)>>]>>,
            !.redirects = <<[src |-> PA, dest |-> <<"/", "c", ":q">>, statusCode |-> 0,
                             has |-> <<HasItem("q", <<>>), HasItem("q", <<"2">>)>>]>>,
            !.afterFiles = <<[src |-> PA, dest |-> PB,
                              has |-> <<HasItem("q", <<"2">>)>>]>>] }

Request(url, method, preflight) ==
  [ url |-> url, method |-> method, preflight |-> preflight,
    hadBasePath |-> FALSE, rewroteUrl |-> <<>>, didRewrite |-> FALSE ]

Requests(c) ==
  { Request(c.basePath \o u, m.method, m.preflight) :
      u \in {PA, <<"/", "a", "?", "q=2">>},
      m \in {[method |-> "GET", preflight |-> FALSE]} }
  \cup { Request(c.basePath \o PA, "OPTIONS", TRUE), Request(PA, "GET", FALSE),
         Request(c.basePath \o <<"/", "%">>, "GET", FALSE),
         Request(c.basePath \o NextData \o <<"/", c.buildId, "/", "b", ".json">>, "GET", FALSE) }
  \cup (IF c.afterFiles # <<>> /\ c.redirects = <<>>
        THEN { Request(PB \o <<"?", "_nextBubbleNoFallback=1">>, "GET", FALSE) }
        ELSE {})

Init ==
  /\ cfg \in Servers
  /\ req \in Requests(cfg)
  /\ parsed = [pathname |-> <<>>, query |-> NoHeaders]
  /\ res = NewRes
  /\ pc = "start"
  /\ ri = 0
  /\ savedPathname = <<>>
  /\ stack = <<>>
  /\ pipeRes = NoResult
  /\ err = ""
  /\ outcome = "none"
  /\ invocations = <<>>
  /\ userSet = NoHeaders
  /\ hlog = <<>>
  /\ edgeRes = NoResult
  /\ edgeCalls = <<>>

Next ==
  \/ HandleRequest
  \/ RouteStep
  \/ EdgeCatchAllStart
  \/ EdgeInvoke
  \/ EdgeSkip
  \/ EdgeReturn
  \/ EdgeCatchAllEnd
  \/ RunNotMatched
  \/ HandleRequestCatch

Spec == Init /\ [][Next]_vars

(***************************************************************************)
(* Properties                                                              *)
(***************************************************************************)
Last(s) == s[Len(s)]

EdgeName == catchAllEdgeFunctions.name

\* the edge functions invoked so far for the request
FoundCount == Cardinality({ i \in DOMAIN invocations : invocations[i].found })

\* runEdgeFunctions returned a result to the edge catch-all
PipelineReturned == pc = "edgeDone" /\ IsResult(pipeRes)

\* the handler of the edge catch-all returned for a result of the pipeline
EdgeHandled ==
  /\ IsResult(pipeRes)
  /\ \E i \in DOMAIN hlog : hlog[i].name = EdgeName

\* what the handler of the edge catch-all reported
EdgeEntry == hlog[CHOOSE i \in DOMAIN hlog : hlog[i].name = EdgeName]

\* no route handler ran since the edge catch-all returned
JustAfterEdge == hlog # <<>> /\ Last(hlog).name = EdgeName

\* C1: the outer response is ended at most once; no handler and no
\* applyCheckTrue step runs after a handler that reported finished=true; the
\* 404 of Server.run is issued only when no handler finished
C1_OneTerminalResponse ==
  /\ res.ends <= 1
  /\ \A i \in 1..Len(hlog) : hlog[i].finished => i = Len(hlog)
  /\ outcome = "matched" => hlog # <<>> /\ Last(hlog).finished
  /\ outcome = "notFound" => \A i \in 1..Len(hlog) : ~hlog[i].finished

\* a handler that did not finish was followed by the one that answered
C1_Witness ==
  /\ pc = "done" /\ outcome = "matched" /\ res.ends = 1
  /\ Len(hlog) >= 2 /\ ~hlog[1].finished /\ Last(hlog).finished

CyclicRun ==
  /\ invocations # <<>>
  /\ \A i \in DOMAIN invocations : invocations[i].found /\ invocations[i].nested

EdgeOutput == UserHeaders \cup Sentinels \cup {XFunctions}

\* C3: a rewrite cycle never returns a result: the recursion stays bounded and
\* ends with the too-many-calls error; nothing of an edge function is on the
\* outer response then, and outside minimal mode the answer is the 500
C3_CycleEndsInError ==
  /\ Len(stack) <= MaxEdgeCalls + 1
  /\ CyclicRun => /\ pc \in {"edge", "error", "done"}
                  /\ pc # "edge" => err = "TooManyEdgeCalls"
                  /\ DOMAIN res.headers \cap EdgeOutput = {}
                  /\ (pc \in {"edge", "error"} \/ outcome = "rethrown") =>
                       /\ res.ends = 0 /\ ~res.headWritten /\ res.body = <<>>
                       /\ res.statusCode = 200
                  /\ pc = "done" =>
                       IF cfg.minimalMode THEN outcome = "rethrown"
                       ELSE /\ outcome = "error500"
                            /\ res.statusCode = 500 /\ res.ends = 1
                            /\ res.body = <<"Internal Server Error">>

C3_Witness ==
  /\ CyclicRun /\ pc = "done" /\ err = "TooManyEdgeCalls"
  /\ res.statusCode = 500

EdgeBodyCase ==
  /\ EdgeHandled /\ ~isPreflight
  /\ \/ pipeRes.event = "streaming"
     \/ /\ pipeRes.event = "data"
        /\ HGet(pipeRes.headers, XRedirect) = <<>>
        /\ HGet(pipeRes.headers, XRewrite) = <<>>

EdgeRedirectCase ==
  /\ EdgeHandled /\ ~isPreflight
  /\ pipeRes.event # "streaming"
  /\ HGet(pipeRes.headers, XRedirect) # <<>>

RewriteTarget == HGet(pipeRes.headers, XRewrite)

\* the catch-all handled a result whose rewrite sentinel is a path
EdgeRewriteCase == EdgeHandled /\ StartsWith(RewriteTarget, <<"/">>)

\* the catch-all reported finished=false, the request and the parsed URL
\* carry the rewrite target, and the route under test is matched against it
RoutingContinuesRewritten ==
  /\ ~EdgeEntry.finished
  /\ JustAfterEdge =>
       /\ req.rewroteUrl = UrlPath(RewriteTarget)
       /\ parsed.pathname = UrlPath(RewriteTarget)
       /\ \A k \in DOMAIN ParseQs(UrlSearch(RewriteTarget)) :
            HGet(parsed.query, k) = ParseQs(UrlSearch(RewriteTarget))[k]
       /\ (pc = "route" /\ ri <= Len(allRoutes(cfg))) =>
            CurrentPathname(cfg, allRoutes(cfg)[ri], req, parsed)
              = (IF keepBasePathOf(allRoutes(cfg)[ri]) THEN UrlPath(RewriteTarget)
                 ELSE replaceBasePath(cfg.basePath, UrlPath(RewriteTarget)))

EdgeEmptyCase ==
  /\ EdgeHandled /\ ~isPreflight
  /\ HGet(pipeRes.headers, XRedirect) = <<>>
  /\ HGet(pipeRes.headers, XRewrite) = <<>>
  /\ pipeRes.body = <<>> /\ pipeRes.chunks = <<>>

EdgePreflightCase == EdgeHandled /\ isPreflight

\* C12: a preflight is answered 200 with the headers of the result and an
\* empty body, and routing ends there, whatever the result asks for
C12_PreflightShortCircuits ==
  EdgePreflightCase =>
    /\ EdgeEntry.finished /\ JustAfterEdge
    /\ pc = "done" /\ outcome = "matched"
    /\ res.statusCode = 200 /\ res.ends = 1 /\ res.body = <<>>
    /\ res.proxied = <<>>
    /\ ~HHas(res.headers, "location")
    /\ \A k \in DOMAIN pipeRes.headers : HGet(res.headers, k) = pipeRes.headers[k]

\* a preflight whose function streamed a chunk after setting a header
C12_Witness ==
  /\ EdgePreflightCase /\ pipeRes.event = "streaming" /\ pipeRes.chunks # <<>>
  /\ HHas(pipeRes.headers, "x-a") /\ res.ends = 1

\* a preflight whose function asked for a redirect
C12_WitnessRedirect ==
  /\ EdgePreflightCase /\ HGet(pipeRes.headers, XRedirect) # <<>> /\ res.ends = 1

(***************************************************************************)
(* The EdgeResponse API call by call: one handler drives the response of   *)
(* its invocation (adapter.ts, response.ts); when it returns, the edge     *)
(* catch-all answers the client from the result.  The server has one edge  *)
(* function, on /a, and the request is for /a, so the pipeline makes this  *)
(* one invocation.                                                         *)
(***************************************************************************)
\* most API calls one handler makes
MaxCalls == 3

SetCookie == "set-cookie"
ContentType == "content-type"
ContentLength == "content-length"

\* Headers.append: a further value is joined to the present one with ', '
HAppend(h, k, v) ==
  IF HHas(h, k) THEN HSet(h, k, h[k] \o <<", ">> \o v) ELSE HSet(h, k, v)

\* cookie.serialize(name, val, opts) with opts.path = '/' and, for a cleared
\* cookie, opts.expires = new Date(1)
CookieSerialize(name, val, expired) ==
  <<name, "=">> \o val \o <<"; Path=/">>
  \o (IF expired THEN <<"; Expires=Thu, 01 Jan 1970 00:00:00 GMT">> ELSE <<>>)

\* EdgeResponse.cookie(name, value, opts) with a string value
CookieWith(r, name, val, expired) ==
  [r EXCEPT !.headers = HAppend(r.headers, SetCookie, CookieSerialize(name, val, expired))]

\* EdgeResponse.cookie(name, value)
Cookie(r, name, val) == CookieWith(r, name, val, FALSE)

\* EdgeResponse.clearCookie(name)
ClearCookie(r, name) == CookieWith(r, name, <<>>, TRUE)

\* JSON.stringify of the object values the handlers send
JsonStringify(obj) == IF obj = "objA" THEN <<"{", "\"a\":1", "}">> ELSE <<"{", "}">>

\* EdgeResponse.json(obj), body being JSON.stringify(obj)
Json(r, body) ==
  Send(IF HGet(r.headers, ContentType) = <<>>
       THEN [r EXCEPT !.headers = HSet(r.headers, ContentType, <<"application/json">>)]
       ELSE r,
       body)

\* EdgeResponse.send(data) with an object
SendObject(r, obj) ==
  IF r.finished THEN Throw(r)
  ELSE IF SetHeaders(r, "", <<>>).thrown THEN SetHeaders(r, "", <<>>)
  ELSE Json(r, JsonStringify(obj))

\* number of bytes of the UTF-8 encoding of one token
TokenBytes(tok) ==
  CASE tok \in {"{", "}"} -> 1
    [] tok \in {"hi", "ok", "c1", "c2"} -> 2
    [] tok = "\"a\":1" -> 5
    [] OTHER -> 1

RECURSIVE byteLength(_)
\* byteLength (utils.ts)
byteLength(text) ==
  IF text = <<>> THEN 0 ELSE TokenBytes(Head(text)) + byteLength(Tail(text))

ApiOps ==
  { Op("status", 401, "", <<>>),
    Op("status", 204, "", <<>>),
    Op("setHeaders", 0, "x-a", <<"1">>),
    Op("setHeaders", 0, SetCookie, <<"z", "=", "9">>),
    Op("setHeaders", 0, ContentType, <<"text/html">>),
    Op("cookie", 0, "a", <<"1">>),
    Op("clearCookie", 0, "a", <<>>),
    Op("write", 0, "", <<"c1">>),
    Op("write", 0, "", <<"c2">>),
    Op("writeHead", 201, "", <<>>),
    Op("send", 0, "", <<"hi">>),
    Op("sendObject", 0, "objA", <<>>),
    Op("end", 0, "", <<>>),
    Op("endData", 0, "", <<"ok">>),
    Op("next", 0, "", <<>>),
    Op("redirect", 0, "", TX),
    Op("rewrite", 0, "", TA),
    Op("rewrite", 0, "", TX) }

\* one API call of the handler
ExecApi(r, o) ==
  CASE o.op = "cookie" -> Cookie(r, o.k, o.s)
    [] o.op = "clearCookie" -> ClearCookie(r, o.k)
    [] o.op = "writeHead" -> WriteHead(r, o.n)
    [] o.op = "sendObject" -> SendObject(r, o.k)
    [] o.op = "endData" -> EndData(r, o.s)
    [] OTHER -> Exec(r, o)

\* the server of the API runs: one edge function, on /a
ApiServer == [Server0 EXCEPT !.edgeFns = <<PA>>, !.found = {1}]

\* the index of the edge catch-all among the routes
EdgeRouteIndex(c) == CHOOSE i \in DOMAIN allRoutes(c) : allRoutes(c)[i].kind = "edge"

\* the request as handleRequest left it
ApiRequests ==
  { Request(PA, "GET", FALSE), Request(PA, "OPTIONS", TRUE) }

\* the handler of the function on /a has just been called for the request
ApiInit ==
  /\ cfg = ApiServer
  /\ req \in ApiRequests
  /\ parsed = [pathname |-> PA, query |-> NoHeaders]
  /\ res = [NewRes EXCEPT !.statusCode = 200]
  /\ pc = "api"
  /\ ri = EdgeRouteIndex(cfg)
  /\ savedPathname = PA
  /\ stack = <<Frame(0, PA)>>
  /\ pipeRes = NoResult
  /\ err = ""
  /\ outcome = "none"
  /\ invocations = <<>>
  /\ userSet = NoHeaders
  /\ hlog = <<>>
  /\ edgeRes = NewEdgeResponse(NoHeaders, req.method, cfg.basePath)
  /\ edgeCalls = <<>>

\* the handler makes one more call on its response
ApiCall ==
  /\ pc = "api"
  /\ ~edgeRes.thrown
  /\ Len(edgeCalls) < MaxCalls
  /\ \E o \in ApiOps :
       /\ edgeRes' = ExecApi(edgeRes, o)
       /\ edgeCalls' = Append(edgeCalls, o)
  /\ UNCHANGED << cfg, req, parsed, res, pc, ri, savedPathname, stack, pipeRes,
                  err, outcome, invocations, userSet, hlog >>

\* what runEdgeFunctions returns for the one invocation
ApiResult(r) == FinalResult([Frame(0, PA) EXCEPT !.result = r, !.calls = CountCall(0)])

\* the handler returned (or threw): the promise of the adapter is unresolved
\* and the pipeline waits for ever, or the catch-all handles the result
ApiReturn ==
  /\ pc = "api"
  /\ IF edgeRes.event = "none"
     THEN /\ pc' = "hung"
          /\ UNCHANGED << parsed, res, req, ri, err, hlog, outcome, pipeRes >>
     ELSE /\ pipeRes' = ApiResult(edgeRes)
          /\ \E env \in Env :
               EdgeCatchAllDone(edgeCatchAllFn(ApiResult(edgeRes), isPreflight, res, req,
                                               parsed.query, env), env)
  /\ stack' = <<>>
  /\ UNCHANGED << cfg, savedPathname, invocations, userSet, edgeRes, edgeCalls >>

ApiNext ==
  \/ ApiCall
  \/ ApiReturn

SpecApi == ApiInit /\ [][ApiNext]_vars

(***************************************************************************)
(* Properties of the EdgeResponse API                                      *)
(***************************************************************************)
LastCall == edgeCalls[Len(edgeCalls)]

\* the step is an API call of the handler
ApiCalling == pc = "api" /\ edgeCalls' # edgeCalls

SentinelsOf(r) == [k \in DOMAIN r.headers \cap Sentinels |-> r.headers[k]]

\* C13: a call on a finished response fails and changes neither the status
\* code, nor the headers, nor the body
C13_FinishedIsFrozen ==
  [][ (ApiCalling /\ edgeRes.finished) =>
        /\ edgeRes'.thrown
        /\ edgeRes'.statusCode = edgeRes.statusCode
        /\ edgeRes'.headers = edgeRes.headers
        /\ edgeRes'.body = edgeRes.body
        /\ edgeRes'.chunks = edgeRes.chunks ]_vars

\* the calls that decide the response: a redirect, a rewrite, a body
Deciding == {"rewrite", "redirect", "send", "sendObject", "write"}

\* C14: a rewrite or redirect made after a rewrite, a redirect, a send or a
\* write leaves the sentinels of the response as they were
C14_FirstDecisionWins ==
  [][ ( /\ ApiCalling
        /\ edgeCalls'[Len(edgeCalls')].op \in {"rewrite", "redirect"}
        /\ \E i \in DOMAIN edgeCalls : edgeCalls[i].op \in Deciding ) =>
        SentinelsOf(edgeRes') = SentinelsOf(edgeRes) ]_vars

\* the calls that leave the response undecided
Preparing == {"status", "setHeaders", "cookie", "clearCookie"}

\* call i is a redirect, the first deciding call of the handler, and the
\* calls after it are sends and writes, at least one
RedirectAt(i) ==
  /\ edgeCalls[i].op = "redirect"
  /\ i < Len(edgeCalls)
  /\ \A j \in 1..(i - 1) : edgeCalls[j].op \in Preparing
  /\ \A j \in (i + 1)..Len(edgeCalls) : edgeCalls[j].op \in {"send", "sendObject", "write"}

\* the client got the redirect of call i and no body
RedirectedTo(i) ==
  /\ pc = "done" /\ outcome = "matched" /\ res.ends = 1
  /\ HGet(res.headers, "location") = FormatTarget(edgeCalls[i].s, cfg.basePath)
  /\ res.statusCode = 302
  /\ res.body = <<>>

SendSucceeded ==
  /\ pc = "api" /\ edgeCalls # <<>>
  /\ LastCall.op \in {"send", "sendObject"}
  /\ ~edgeRes.thrown
  /\ edgeRes.statusCode \notin {204, 205, 304}

\* the Content-Type a handler set before, empty when it set none
TypeSetBefore ==
  IF \E i \in DOMAIN edgeCalls : edgeCalls[i].op = "setHeaders" /\ edgeCalls[i].k = ContentType
  THEN <<"text/html">> ELSE <<>>

\* C16: after send the headers have Content-Type (application/json for an
\* object, text/plain otherwise, unless set before) and Content-Length = the
\* byte length of the body
C16_SendSetsTypeAndLength ==
  SendSucceeded =>
    /\ HGet(edgeRes.headers, ContentType) =
         (IF TypeSetBefore # <<>> THEN TypeSetBefore
          ELSE IF LastCall.op = "sendObject" THEN <<"application/json">>
          ELSE <<"text/plain">>)
    /\ HGet(edgeRes.headers, ContentLength) = NumStr(byteLength(edgeRes.body))

\* C17: on an unfinished response driven only by cookie, clearCookie and
\* setHeaders, every cookie set by cookie() is among the Set-Cookie values
C17_CookiesAccumulate ==
  ( /\ pc = "api" /\ ~edgeRes.finished
    /\ \A i \in DOMAIN edgeCalls : edgeCalls[i].op \in {"cookie", "clearCookie", "setHeaders"} ) =>
    \A i \in DOMAIN edgeCalls :
      edgeCalls[i].op = "cookie" =>
        FindAt(HGet(edgeRes.headers, SetCookie),
               CookieSerialize(edgeCalls[i].k, edgeCalls[i].s, FALSE), 1) # 0

\* the handler made n writes and then end()
WritesThenEnd(n) ==
  /\ n >= 1 /\ Len(edgeCalls) > n
  /\ \A j \in 1..n : edgeCalls[j].op = "write"
  /\ edgeCalls[n + 1].op = "end"

RECURSIVE ChunksOf(_, _)
\* the chunks of the first n calls, in call order
ChunksOf(calls, n) == IF n = 0 THEN <<>> ELSE ChunksOf(calls, n - 1) \o calls[n].s

C18_WitnessLate ==
  /\ pc = "done" /\ ~isPreflight /\ WritesThenEnd(1)
  /\ Len(edgeCalls) = 3 /\ edgeCalls[3].op = "write"
  /\ res.body = edgeCalls[1].s

\* the calls that send the headers when they were not sent
Emitters == {"write", "writeHead", "send", "sendObject", "end", "endData", "redirect", "rewrite"}

\* the mode the first emitting call sends the headers with
ExpectedMode ==
  LET i == CHOOSE i \in DOMAIN edgeCalls :
             /\ edgeCalls[i].op \in Emitters
             /\ \A j \in 1..(i - 1) : edgeCalls[j].op \notin Emitters
  IN IF edgeCalls[i].op \in {"write", "writeHead"} THEN "streaming" ELSE "data"

\* C19: the headers-sent event is emitted at most once, exactly once when the
\* response is finished, with mode 'streaming' after write or writeHead and
\* 'data' otherwise; finished implies headersSent
C19_HeadersSentOnce ==
  /\ Len(edgeRes.emitted) <= 1
  /\ edgeRes.headersSent <=> Len(edgeRes.emitted) = 1
  /\ edgeRes.finished => edgeRes.headersSent
  /\ edgeRes.emitted # <<>> =>
       /\ \E i \in DOMAIN edgeCalls : edgeCalls[i].op \in Emitters
       /\ edgeRes.emitted[1] = ExpectedMode

\* a streamed response that was ended, and a further call after it
C19_Witness ==
  /\ Len(edgeCalls) = 3 /\ edgeCalls[1].op = "write" /\ edgeCalls[2].op = "end"
  /\ edgeRes.finished /\ edgeRes.emitted = <<"streaming">>

(***************************************************************************)
(* Properties of the base path check                                       *)
(***************************************************************************)
\* a base path is configured and the request came without it
NoBasePathRequest == cfg.basePath # <<>> /\ pc # "start" /\ ~req.hadBasePath

CustomRouteNames == {"header route", "Redirect route", "Rewrite route"}

\* the handlers that may run for such a request: those of the custom routes
\* and of the routes that declare requireBasePath = false
MayRunWithoutBasePath(name) ==
  \/ name \in CustomRouteNames
  \/ \E i \in DOMAIN allRoutes(cfg) :
       allRoutes(cfg)[i].name = name /\ ~allRoutes(cfg)[i].requireBasePath

\* C20: for a request without the configured base path only handlers of
\* custom routes and of routes with requireBasePath = false are invoked, and
\* the edge pipeline is not started
C20_BasePathRequired ==
  NoBasePathRequest =>
    /\ \A i \in DOMAIN hlog : MayRunWithoutBasePath(hlog[i].name)
    /\ invocations = <<>>

(***************************************************************************)
(* Properties of Router.execute                                            *)
(***************************************************************************)
\* a handler called by the loop of execute is about to return to it
HandlerReturning == pc \in {"route", "edgeDone"}

\* the parsed URL as it was before execute changed the pathname for the
\* handler under way (the edge catch-all is the one handler that spans
\* several steps; execute put originalPathname aside before calling it)
ParsedBefore ==
  IF pc = "edgeDone" THEN [parsed EXCEPT !.pathname = savedPathname] ELSE parsed

\* the handler under way is getRewriteHandler, the one handler that returns
\* a pathname and a query: a rewrite route, or the edge catch-all when the
\* edge functions decided a rewrite
ReturnsPathAndQuery ==
  \/ pc = "route" /\ ri <= Len(allRoutes(cfg)) /\ allRoutes(cfg)[ri].kind = "rewrite"
  \/ /\ pc = "edgeDone" /\ IsResult(pipeRes) /\ ~isPreflight
     /\ pipeRes.event # "streaming"
     /\ HGet(pipeRes.headers, XRedirect) = <<>>
     /\ HGet(pipeRes.headers, XRewrite) # <<>>

\* execute called a handler, which returned finished=false, and goes on
\* with the next route
HandlerDidNotFinish ==
  /\ HandlerReturning
  /\ pc' = "route" /\ ri' = ri + 1
  /\ Len(hlog') > Len(hlog)

\* C21: when a handler called by execute returns finished=false without a
\* pathname or a query, the next route sees the parsed URL (pathname and
\* query) as it was before the handler was called
C21_PlainResultRestoresUrl ==
  [][ (HandlerDidNotFinish /\ ~ReturnsPathAndQuery) => parsed' = ParsedBefore ]_vars

\* the page checker ran on a request with a query, found no page, and the
\* next route is under test
C21_Witness ==
  /\ pc = "route" /\ hlog # <<>>
  /\ Last(hlog) = HEvent(pageCheckerRoute.name, FALSE)
  /\ HHas(parsed.query, "q")

\* the custom routes as next.config declares them, in the order of allRoutes
\* up to the filesystem routes, then the ones after the page checker
DeclaredBefore(c) ==
  CustomOf(c, c.headers) \o CustomOf(c, c.redirects) \o CustomOf(c, c.beforeFiles)

DeclaredAfter(c) == CustomOf(c, c.afterFiles) \o <<[src |-> <<>>]>> \o CustomOf(c, c.fallback)

\* the declaration the custom route at index i of allRoutes was built from
DeclaredAt(c, i) ==
  IF i <= Len(DeclaredBefore(c)) THEN DeclaredBefore(c)[i]
  ELSE DeclaredAfter(c)[i - Len(DeclaredBefore(c)) - Len(fsRoutes(c))
                        - (IF c.useFileSystemPublicRoutes THEN 2 ELSE 0)]

\* the route under test is a custom route whose declaration has a `has`
\* clause, and execute calls its handler in this step
HasRouteInvoked ==
  /\ pc = "route" /\ ri <= Len(allRoutes(cfg))
  /\ allRoutes(cfg)[ri].type \in customRouteTypes
  /\ HasOf(DeclaredAt(cfg, ri)) # <<>>
  /\ Len(hlog') > Len(hlog)
  /\ hlog'[Len(hlog) + 1].name = allRoutes(cfg)[ri].name

\* the header a header route sets when its params are the ones `has` captured
HeaderWithCaptures(t, decl) ==
  compileNonPath(t.val, HasParams(HasOf(decl), parsed.query))

\* C22: a custom route (header, redirect or rewrite) that declares a `has`
\* clause has its handler invoked only if its path pattern matches and every
\* `has` predicate matches the request, and the handler is given the values
\* `has` captured (seen in the header a header route sets and in the
\* Location of a redirect)
C22_HasGuardsCustomRoutes ==
  [][ HasRouteInvoked =>
        /\ RouteMatch(allRoutes(cfg)[ri], parsed.pathname)
        /\ \A i \in DOMAIN HasOf(DeclaredAt(cfg, ri)) :
             HasItemMatches(HasOf(DeclaredAt(cfg, ri))[i], parsed.query)
        /\ allRoutes(cfg)[ri].kind = "header" =>
             HGet(res'.headers, allRoutes(cfg)[ri].key)
               = HeaderWithCaptures(allRoutes(cfg)[ri], DeclaredAt(cfg, ri))
        /\ allRoutes(cfg)[ri].kind = "redirect" =>
             UrlPath(HGet(res'.headers, "location"))
               = compileNonPath(allRoutes(cfg)[ri].dest,
                                HasParams(HasOf(DeclaredAt(cfg, ri)), parsed.query))
    ]_vars

\* the group of the route at index i of allRoutes: 1 headers, 2 redirects,
\* 3 rewrites before files, 4 filesystem, 5 edge catch-all, 6 page checker,
\* 7 rewrites after files, 8 fallback check and rewrites, 9 page catch-all
GroupAt(c, i) ==
  LET t == allRoutes(c)[i] IN
  CASE t.kind = "header" -> 1
    [] t.kind = "redirect" -> 2
    [] t.kind = "rewrite" /\ ~t.check -> 3
    [] t.kind = "edge" -> 5
    [] t.kind = "pageChecker" -> 6
    [] t.kind = "rewrite" /\ t.check ->
         IF \E j \in 1..(i - 1) : allRoutes(c)[j].kind = "dynCheck" THEN 8 ELSE 7
    [] t.kind = "dynCheck" -> 8
    [] t.kind = "catchAll" -> 9
    [] OTHER -> 4

\* the events the step adds to the handler history
NewEvents == SubSeq(hlog', Len(hlog) + 1, Len(hlog'))

\* the handlers applyCheckTrue calls: the filesystem routes and the page
\* catch-all
CheckTrueNames ==
  { fsRoutes(cfg)[i].name : i \in DOMAIN fsRoutes(cfg) } \cup { catchAllRoute.name }

\* the handler of the route under test returns in this step
TopLevelInvoked == HandlerReturning /\ ri <= Len(allRoutes(cfg)) /\ Len(hlog') > Len(hlog)

\* the handlers run in the step are the one of the route under test, then,
\* for a route with check or for the fallback check, those of applyCheckTrue
InOrderOrCheckTrue(t) ==
  \/ /\ NewEvents[1].name = t.name
     /\ \A k \in 2..Len(NewEvents) : t.check /\ NewEvents[k].name \in CheckTrueNames
  \/ /\ t.kind = "dynCheck"
     /\ \A k \in 1..Len(NewEvents) : NewEvents[k].name \in CheckTrueNames

\* C23: the loop of execute tests the routes group by group (headers,
\* redirects, rewrites before files, filesystem, edge catch-all, page
\* checker, rewrites after files, fallback check and rewrites, page
\* catch-all); a handler is invoked only when no handler before it finished,
\* every route before it was tested, and the only handlers run out of this
\* order are the filesystem routes and the page catch-all that
\* applyCheckTrue calls
C23_GroupOrder ==
  [][ /\ (pc \in {"route", "edgeDone"} /\ ri <= Len(allRoutes(cfg))) =>
           /\ ri' \in {ri, ri + 1}
           /\ \A i \in 1..ri : \A j \in 1..i : GroupAt(cfg, j) <= GroupAt(cfg, i)
      /\ TopLevelInvoked =>
           /\ \A k \in DOMAIN hlog : ~hlog[k].finished
           /\ InOrderOrCheckTrue(allRoutes(cfg)[ri])
           /\ (ri' = ri + 1 /\ pc' = "route") =>
                \A k \in DOMAIN NewEvents : ~NewEvents[k].finished
    ]_vars

\* a fallback rewrite ran after the edge catch-all, the page checker and the
\* fallback check returned finished=false, and a filesystem route called by
\* applyCheckTrue answered
C23_Witness ==
  /\ pc = "done" /\ Len(hlog) >= 4
  /\ Last(hlog) = HEvent("public folder catchall", TRUE)
  /\ \E k \in DOMAIN hlog : hlog[k] = HEvent(EdgeName, FALSE)
  /\ \E k \in DOMAIN hlog : hlog[k] = HEvent("Rewrite route", FALSE)
  /\ cfg.fallback # <<>>

\* the pathname the routes are tested against is the target of a rewrite
Rewritten == req.rewroteUrl # <<>> /\ parsed.pathname = req.rewroteUrl

\* the engine moves on to a further rewrite: the handler of a rewrite route
\* is invoked in this step
FurtherRewrite ==
  /\ pc = "route" /\ ri <= Len(allRoutes(cfg))
  /\ allRoutes(cfg)[ri].kind = "rewrite"
  /\ Len(hlog') > Len(hlog)

\* the engine answers 404 in this step
Answers404 ==
  /\ pc \in {"route", "unmatched"} /\ pc' = "done" /\ res'.statusCode = 404

\* a filesystem route matches the pathname and its handler finishes
ServedByFs(c, p) ==
  \E i \in DOMAIN fsRoutes(c) :
    /\ RouteMatch(fsRoutes(c)[i], p)
    /\ \A env \in Env : fsRouteFn(fsRoutes(c)[i], c, NewRes, req, p, NoHeaders, env).finished

\* the last rewrite among the handlers invoked so far (0 when none): a
\* rewrite route, or the edge catch-all
LastRewrite ==
  LET S == { k \in DOMAIN hlog : hlog[k].name \in {"Rewrite route", EdgeName} }
  IN IF S = {} THEN 0 ELSE CHOOSE k \in S : \A j \in S : j <= k

\* in the handler history h the page check ran after the last rewrite
PageCheckedSince(h) ==
  \E k \in DOMAIN h :
    k > LastRewrite /\ h[k].name \in {pageCheckerRoute.name, catchAllRoute.name,
                                      dynamicCheckRoute.name}

\* a page or a dynamic route exists for the pathname under test
PageExists ==
  \/ hasPage(cfg, replaceBasePath(cfg.basePath, parsed.pathname))
  \/ DynamicRouteMatches(cfg, replaceBasePath(cfg.basePath, parsed.pathname))

C25_ErrorStatus ==
  [][ (pc = "error" /\ pc' = "done") =>
        IF err = "DecodeError"
        THEN /\ res'.statusCode = 400 /\ res'.body = <<"<error>">> /\ res'.ends = 1
             /\ outcome' = "badRequest"
        ELSE IF cfg.minimalMode
        THEN res' = res /\ outcome' = "rethrown"
        ELSE /\ res'.statusCode = 500 /\ res'.body = <<"Internal Server Error">>
             /\ res'.ends = 1 /\ outcome' = "error500"
    ]_vars

\* a request with a malformed percent-encoding was answered 400
C25_Witness ==
  /\ pc = "done" /\ err = "DecodeError" /\ Malformed(req.url)
  /\ res.statusCode = 400 /\ hlog = <<>>

IndexOf(s, tok) == FindAt(s, <<tok>>, 1)

\* String.prototype.toLowerCase
LowerTok(t) == IF t = "EN" THEN "en" ELSE IF t = "FR" THEN "fr" ELSE t

Lower(s) == [i \in DOMAIN s |-> LowerTok(s[i])]

\* pathNoQueryHash
pathNoQueryHash(path) ==
  LET queryIndex == IndexOf(path, "?")
      hashIndex == IndexOf(path, "#")
  IN IF queryIndex > 0 \/ hashIndex > 0
     THEN SubSeq(path, 1, (IF queryIndex > 0 THEN queryIndex ELSE hashIndex) - 1)
     ELSE path

\* pathHasPrefix(path, prefix): the path is the prefix or goes on with '/'
pathHasPrefix(path, prefix) ==
  \/ pathNoQueryHash(path) = prefix
  \/ StartsWith(pathNoQueryHash(path), prefix \o <<"/">>)

\* removePathPrefix(path, prefix): '/' when nothing remains
removePathPrefix(path, prefix) ==
  IF ~pathHasPrefix(path, prefix) THEN path
  ELSE LET withoutPrefix == SubSeq(path, Len(prefix) + 1, Len(path))
       IN IF StartsWith(withoutPrefix, <<"/">>) THEN withoutPrefix
          ELSE <<"/">> \o withoutPrefix

\* normalizeLocalePath(pathname, locales): the first segment, compared
\* case-insensitively, is a configured locale: it is stripped and reported
normalizeLocalePath(pathname, locales) ==
  LET i1 == IndexOf(pathname, "/")
      rest1 == SubSeq(pathname, i1 + 1, Len(pathname))
      i2 == IndexOf(rest1, "/")
      seg == IF i2 = 0 THEN rest1 ELSE SubSeq(rest1, 1, i2 - 1)
      after == IF i2 = 0 THEN <<>> ELSE SubSeq(rest1, i2, Len(rest1))
      hits == { k \in DOMAIN locales : seg # <<>> /\ Lower(seg) = Lower(locales[k]) }
      stripped == SubSeq(pathname, 1, i1 - 1) \o after
  IN IF i1 = 0 \/ hits = {} THEN [pathname |-> pathname, detectedLocale |-> <<>>]
     ELSE [ pathname |-> IF stripped = <<>> THEN <<"/">> ELSE stripped,
            detectedLocale |-> locales[CHOOSE k \in hits : \A j \in hits : k <= j] ]

\* the Stuff record; '' and undefined are the empty text
Stuff(path, basePath, buildId, locale) ==
  [path |-> path, basePath |-> basePath, buildId |-> buildId, locale |-> locale]

\* getRemoveBasePath(opts)
getRemoveBasePath(opts, stuff) ==
  IF opts.basePath = <<>> \/ ~pathHasPrefix(stuff.path, opts.basePath)
  THEN [stuff EXCEPT !.basePath = <<>>]
  ELSE [stuff EXCEPT !.path = removePathPrefix(stuff.path, opts.basePath),
                     !.basePath = opts.basePath]

DataPrefix == <<"/", "_next", "/", "data", "/">>

\* getRemoveData(): [buildId, ...rest] = path without '/_next/data/' and
\* '.json', split at '/'
getRemoveData(stuff) ==
  IF ~StartsWith(stuff.path, DataPrefix) \/ ~EndsWith(stuff.path, <<".json">>)
  THEN [stuff EXCEPT !.buildId = <<>>]
  ELSE LET inner == SubSeq(stuff.path, Len(DataPrefix) + 1, Len(stuff.path) - 1)
           i == IndexOf(inner, "/")
           buildId == IF i = 0 THEN inner ELSE SubSeq(inner, 1, i - 1)
           joined == IF i = 0 THEN <<>> ELSE SubSeq(inner, i + 1, Len(inner))
           j == IndexOf(joined, "/")
           rest0 == IF j = 0 THEN joined ELSE SubSeq(joined, 1, j - 1)
       IN [stuff EXCEPT !.path = IF rest0 # <<"index">> THEN <<"/">> \o joined ELSE <<"/">>,
                        !.buildId = buildId]

\* getRemoveLocale(opts)
getRemoveLocale(opts, stuff) ==
  LET pathLocale == normalizeLocalePath(stuff.path, opts.locales) IN
  [stuff EXCEPT !.locale = pathLocale.detectedLocale,
                !.path = IF pathLocale.pathname # <<>> THEN pathLocale.pathname ELSE @]

\* getStuff(url, opts)
getStuff(pathname, opts) ==
  getRemoveLocale(opts,
    getRemoveData(
      getRemoveBasePath(opts, Stuff(pathname, <<>>, <<>>, <<>>))))

\* addPathPrefix(path, prefix)
addPathPrefix(path, prefix) ==
  IF ~StartsWith(path, <<"/">>) \/ prefix = <<>> THEN path
  ELSE prefix \o pathNoQueryHash(path)
       \o SubSeq(path, Len(pathNoQueryHash(path)) + 1, Len(path))

\* addPathSuffix(path, suffix)
addPathSuffix(path, suffix) ==
  pathNoQueryHash(path) \o suffix
  \o SubSeq(path, Len(pathNoQueryHash(path)) + 1, Len(path))

\* addLocale(path, locale, defaultLocale)
addLocale(path, locale, defaultLocale) ==
  IF locale # <<>> /\ locale # defaultLocale
     /\ ~pathHasPrefix(Lower(pathNoQueryHash(path)), <<"/">> \o Lower(locale))
     /\ ~pathHasPrefix(Lower(pathNoQueryHash(path)), <<"/", "api">>)
  THEN addPathPrefix(path, <<"/">> \o locale)
  ELSE path

\* formatStuff(stuff, opts)
formatStuff(stuff, opts) ==
  LET path1 == addLocale(stuff.path, stuff.locale,
                         IF stuff.buildId = <<>> THEN opts.defaultLocale ELSE <<>>)
      path2 == IF stuff.buildId # <<>>
               THEN addPathSuffix(addPathPrefix(path1, DataPrefix \o stuff.buildId),
                                  IF stuff.path = <<"/">> THEN <<"index", ".json">>
                                  ELSE <<".json">>)
               ELSE path1
  IN addPathPrefix(path2, stuff.basePath)

\* NextURL.analyzeUrl: the internal state of a NextURL made from a pathname
analyzeUrl(pathname, options) ==
  LET stuff == getStuff(pathname, [basePath |-> options.basePath, locales |-> options.locales])
  IN [ pathname |-> stuff.path,
       defaultLocale |-> options.defaultLocale,
       basePath |-> stuff.basePath,
       buildId |-> stuff.buildId,
       locale |-> IF stuff.locale # <<>> THEN stuff.locale ELSE options.defaultLocale ]

\* NextURL.formatPathname
formatPathname(internal, options) ==
  formatStuff(Stuff(internal.pathname, internal.basePath, internal.buildId, internal.locale),
              [ basePath |-> options.basePath, locales |-> options.locales,
                defaultLocale |-> internal.defaultLocale ])

RECURSIVE CollapseLeadingSlashes(_)
\* url.replace(/^\/+/, '/')
CollapseLeadingSlashes(url) ==
  IF Len(url) >= 2 /\ url[1] = "/" /\ url[2] = "/" THEN CollapseLeadingSlashes(Tail(url))
  ELSE url

\* parseNextUrl: the base path is taken off the pathname
parseNextUrlBasePath(url, basePath) ==
  LET pathname == UrlPath(CollapseLeadingSlashes(url))
      stripped == ReplaceFirst(pathname, basePath)
  IN IF basePath # <<>> /\ StartsWith(pathname, basePath)
     THEN [pathname |-> IF stripped = <<>> THEN <<"/">> ELSE stripped, basePath |-> basePath]
     ELSE [pathname |-> pathname, basePath |-> <<>>]

(***************************************************************************)
(* The URL model applied to bounded inputs: the configuration is in cfg,   *)
(* the path in req.url, the result of the last function in parsed and the  *)
(* formatted pathname in savedPathname.                                    *)
(***************************************************************************)
UrlConfigs ==
  { [basePath |-> b, locales |-> l.locales, defaultLocale |-> l.defaultLocale] :
      b \in {<<>>, BaseD},
      l \in { [locales |-> <<>>, defaultLocale |-> <<>>],
              [locales |-> << <<"en">>, <<"fr">> >>, defaultLocale |-> <<"en">>] } }

BuildIds == { <<"b1">>, <<"b2">> }

PagePaths == { <<"/">>, <<"/", "x">>, <<"/", "x", "/", "y">>, <<"/", "index", "/", "x">> }

\* the data URL of page p under build id b: /_next/data/<b>/<p>.json
DataUrl(b, p) ==
  DataPrefix \o b \o (IF p = <<"/">> THEN <<"/", "index">> ELSE p) \o <<".json">>

UrlPaths ==
  { <<"/">>, <<"/", "x">>, <<"/", "x", "/", "y">>,
    BaseD, BaseD \o <<"/">>, BaseD \o <<"/", "x">>,
    BaseD \o <<"2">>, BaseD \o <<"2", "/", "x">>,
    <<"/", "x">> \o BaseD, <<"/", "x">> \o BaseD \o <<"/", "y">>,
    <<"/", "en", "/", "x">>, <<"/", "EN", "/", "x">>, <<"/", "fr", "/", "x">>,
    <<"/", "fr">>, BaseD \o <<"/", "fr", "/", "x">>, BaseD \o <<"/", "en", "/", "x">> }
  \cup { DataUrl(b, p) : b \in BuildIds, p \in PagePaths }
  \cup { BaseD \o DataUrl(<<"b1">>, <<"/", "x">>) }

UrlInit ==
  /\ cfg \in UrlConfigs
  /\ req \in { Request(u, "GET", FALSE) : u \in UrlPaths }
  /\ parsed = [pathname |-> <<>>, query |-> NoHeaders]
  /\ res = NewRes
  /\ pc = "url"
  /\ ri = 0
  /\ savedPathname = <<>>
  /\ stack = <<>>
  /\ pipeRes = NoResult
  /\ err = ""
  /\ outcome = "none"
  /\ invocations = <<>>
  /\ userSet = NoHeaders
  /\ hlog = <<>>
  /\ edgeRes = NoResult
  /\ edgeCalls = <<>>

urlFixed == << cfg, req, res, ri, stack, pipeRes, err, outcome, invocations, userSet,
               hlog, edgeRes, edgeCalls >>

\* the base path is taken off the path by handleRequest, by the router and
\* by parseNextUrl
UrlStrip ==
  /\ pc = "url"
  /\ parsed' = [ handleRequest |-> handleRequestBasePath(req.url, cfg.basePath),
                 replaceBasePath |-> replaceBasePath(cfg.basePath, req.url),
                 parseNextUrl |-> parseNextUrlBasePath(req.url, cfg.basePath) ]
  /\ pc' = "stripped"
  /\ UNCHANGED savedPathname
  /\ UNCHANGED urlFixed

\* new NextURL(path, options)
UrlAnalyze ==
  /\ pc = "url"
  /\ parsed' = analyzeUrl(req.url, cfg)
  /\ pc' = "analyzed"
  /\ UNCHANGED savedPathname
  /\ UNCHANGED urlFixed

\* the pathname of the NextURL is formatted
UrlFormat ==
  /\ pc = "analyzed"
  /\ savedPathname' = formatPathname(parsed, cfg)
  /\ pc' = "formatted"
  /\ UNCHANGED parsed
  /\ UNCHANGED urlFixed

UrlNext ==
  \/ UrlStrip
  \/ UrlAnalyze
  \/ UrlFormat

SpecUrl == UrlInit /\ [][UrlNext]_vars

(***************************************************************************)
(* Properties of the URL model                                             *)
(***************************************************************************)
\* the path carries the base path: it is the base path or goes on with '/'
CarriesBasePath(p, b) == p = b \/ StartsWith(p, b \o <<"/">>)

\* the path without the base path it carries, '/' when nothing remains
WithoutBasePath(p, b) ==
  IF Len(p) = Len(b) THEN <<"/">> ELSE SubSeq(p, Len(b) + 1, Len(p))

\* what stripping the base path of cfg off req.url has to give
StripExpected ==
  IF cfg.basePath # <<>> /\ CarriesBasePath(req.url, cfg.basePath)
  THEN [url |-> WithoutBasePath(req.url, cfg.basePath), hadBasePath |-> TRUE]
  ELSE [url |-> req.url, hadBasePath |-> FALSE]

\* C27: base-path stripping (Server.handleRequest, the router's
\* replaceBasePath, parseNextUrl) removes the base path only when the path is
\* the base path or goes on with '/', gives '/' when nothing remains, and
\* otherwise leaves the path unchanged and records that the request did not
\* carry the base path
C27_BasePathStripping ==
  pc = "stripped" =>
    /\ parsed.handleRequest = StripExpected
    /\ parsed.replaceBasePath = StripExpected.url
    /\ parsed.parseNextUrl.pathname = StripExpected.url
    /\ (parsed.parseNextUrl.basePath # <<>>) = StripExpected.hadBasePath

\* C28: with a base path B configured (and no locales), for every path that
\* is B or starts with B + '/', parsing it into a NextURL and formatting the
\* NextURL gives the path back; the application root, parsed from B, formats
\* to B
C28_BasePathRoundTrip ==
  ( /\ pc = "formatted"
    /\ cfg.basePath # <<>> /\ cfg.locales = <<>>
    /\ CarriesBasePath(req.url, cfg.basePath) )
  => savedPathname = req.url

\* the first segment of a path: the pieces between its first two '/'
FirstSegment(p) ==
  LET rest == Tail(p)
      i == IndexOf(rest, "/")
  IN IF i = 0 THEN rest ELSE SubSeq(rest, 1, i - 1)

\* C29: for every configured locale L, default or not, and every path whose
\* first segment is L compared case-insensitively, detecting and stripping
\* the locale and then formatting the URL gives the path back
C29_LocaleRoundTrip ==
  ( /\ pc = "formatted"
    /\ \E k \in DOMAIN cfg.locales : Lower(FirstSegment(req.url)) = Lower(cfg.locales[k]) )
  => savedPathname = req.url

\* C30: for every build id b and page path p, parsing the data URL
\* /_next/data/b/<p>.json (index.json for the root) gives the build id b and
\* the pathname p, and formatting the parsed URL gives the data URL back
\* (without locales)
C30_DataUrlRoundTrip ==
  \A b \in BuildIds : \A p \in PagePaths :
    (req.url = DataUrl(b, p) /\ cfg.locales = <<>> /\ pc \in {"analyzed", "formatted"}) =>
      /\ parsed.buildId = b
      /\ parsed.pathname = p
      /\ pc = "formatted" => savedPathname = req.url

(***************************************************************************)
(* The edge manifest lookup: getEdgeFunctionPath, Server.hasEdgeFunction   *)
(* and the lookup at the head of Server.runEdgeFunction, applied to one    *)
(* page and one manifest.  The manifest and the server build directory are *)
(* in cfg, the page in req.url, the result of the call in parsed.          *)
(***************************************************************************)
\* normalizePagePath: '/' becomes '/index', a page under /index gets another
\* /index in front, and a page that is not in normal form ('..') throws
normalizePagePath(page) ==
  LET p == IF page = <<"/">> THEN <<"/", "index">>
           ELSE IF page = <<"/", "index">> \/ StartsWith(page, <<"/", "index", "/">>)
                THEN <<"/", "index">> \o page
                ELSE page
  IN [threw |-> \E i \in DOMAIN p : p[i] = "..", page |-> p]

\* denormalizePagePath: a leading /index is removed, /index is the root
denormalizePagePath(page) ==
  IF StartsWith(page, <<"/", "index", "/">>) THEN SubSeq(page, 3, Len(page))
  ELSE IF page = <<"/", "index">> THEN <<"/">>
  ELSE page

\* pageNotFoundError(page)
pageNotFoundError(page) == [threw |-> TRUE, code |-> "ENOENT", path |-> <<>>]

\* the callback handed to edgeManifest.forEach: on the element of the page
\* it returns the joined path, to forEach
manifestCallback(element, page, serverBuildPath) ==
  IF element.page = page
  THEN [returned |-> TRUE, value |-> serverBuildPath \o <<"/">> \o element.file]
  ELSE [returned |-> FALSE, value |-> <<>>]

\* Array.prototype.forEach calls the callback on every element and gives
\* undefined to its caller whatever the callbacks returned
forEach(manifest, page, serverBuildPath) ==
  LET calls == [i \in DOMAIN manifest |-> manifestCallback(manifest[i], page, serverBuildPath)]
  IN [completed |-> Len(calls) = Len(manifest), value |-> "undefined"]

\* getEdgeFunctionPath(page, distDir, ...): the statement after the forEach
\* is the throw
getEdgeFunctionPath(page, manifest, serverBuildPath) ==
  LET n == normalizePagePath(page) IN
  IF n.threw THEN pageNotFoundError(page)
  ELSE IF forEach(manifest, denormalizePagePath(n.page), serverBuildPath).completed
       THEN pageNotFoundError(denormalizePagePath(n.page))
       ELSE pageNotFoundError(page)

\* Server.hasEdgeFunction: found = !!path, every error swallowed
hasEdgeFunction(page, manifest, serverBuildPath) ==
  LET r == getEdgeFunctionPath(page, manifest, serverBuildPath)
  IN IF r.threw THEN FALSE ELSE r.path # <<>>

\* the head of Server.runEdgeFunction: "undefined" when the function is not
\* found, otherwise the built path that is required and invoked
runEdgeFunctionLookup(page, manifest, serverBuildPath) ==
  IF ~hasEdgeFunction(page, manifest, serverBuildPath)
  THEN [invoked |-> FALSE, path |-> <<>>, threw |-> FALSE]
  ELSE LET r == getEdgeFunctionPath(page, manifest, serverBuildPath)
       IN IF r.threw
          THEN [invoked |-> FALSE, path |-> <<>>, threw |-> r.code # "ENOENT"]
          ELSE [invoked |-> TRUE, path |-> r.path, threw |-> FALSE]

ServerBuildPath == <<"dist", "/", "server">>

ManifestPages == { <<"/">>, <<"/", "a">>, <<"/", "b">> }

ManifestElement(p) ==
  [page |-> p, file |-> <<"pages">> \o (IF p = <<"/">> THEN <<>> ELSE p) \o <<"/", "_edge.js">>]

\* the manifests: up to two elements, no page twice
EdgeManifests ==
  { <<>> } \cup { <<ManifestElement(p)>> : p \in ManifestPages }
  \cup UNION { { <<ManifestElement(p), ManifestElement(q)>> : q \in ManifestPages \ {p} } :
               p \in ManifestPages }

RequestedPages ==
  ManifestPages \cup { <<"/", "index">>, <<"/", "index", "/", "a">>, <<"/", "..", "/", "a">> }

ManifestInit ==
  /\ cfg \in { [manifest |-> mf, serverBuildPath |-> ServerBuildPath] : mf \in EdgeManifests }
  /\ req \in { Request(p, "GET", FALSE) : p \in RequestedPages }
  /\ parsed = [pathname |-> <<>>, query |-> NoHeaders]
  /\ res = NewRes
  /\ pc = "manifest"
  /\ ri = 0
  /\ savedPathname = <<>>
  /\ stack = <<>>
  /\ pipeRes = NoResult
  /\ err = ""
  /\ outcome = "none"
  /\ invocations = <<>>
  /\ userSet = NoHeaders
  /\ hlog = <<>>
  /\ edgeRes = NoResult
  /\ edgeCalls = <<>>

manifestFixed == << cfg, req, res, ri, savedPathname, stack, pipeRes, err, outcome,
                    invocations, userSet, hlog, edgeRes, edgeCalls >>

\* getEdgeFunctionPath(page, ...) is called
ManifestGetPath ==
  /\ pc = "manifest"
  /\ parsed' = getEdgeFunctionPath(req.url, cfg.manifest, cfg.serverBuildPath)
  /\ pc' = "path"
  /\ UNCHANGED manifestFixed

\* this.hasEdgeFunction(page) is called
ManifestHas ==
  /\ pc = "manifest"
  /\ parsed' = [found |-> hasEdgeFunction(req.url, cfg.manifest, cfg.serverBuildPath)]
  /\ pc' = "has"
  /\ UNCHANGED manifestFixed

\* this.runEdgeFunction({ edgeFunction, ... }) looks its function up
ManifestRun ==
  /\ pc = "manifest"
  /\ parsed' = runEdgeFunctionLookup(req.url, cfg.manifest, cfg.serverBuildPath)
  /\ pc' = "run"
  /\ UNCHANGED manifestFixed

ManifestNext ==
  \/ ManifestGetPath
  \/ ManifestHas
  \/ ManifestRun

SpecManifest == ManifestInit /\ [][ManifestNext]_vars

\* the elements of the manifest for the requested page, none when the page
\* has no normal form
ManifestEntries ==
  LET n == normalizePagePath(req.url) IN
  IF n.threw THEN {}
  ELSE { i \in DOMAIN cfg.manifest : cfg.manifest[i].page = denormalizePagePath(n.page) }

\* C31: getEdgeFunctionPath returns the built file path of the edge function
\* whenever the manifest has an entry for the requested page and fails with
\* the page-not-found error (ENOENT) only when it has none; hasEdgeFunction
\* is true exactly for the pages present in the manifest
C31_ManifestLookup ==
  /\ pc = "path" =>
       IF ManifestEntries = {}
       THEN parsed.threw /\ parsed.code = "ENOENT"
       ELSE /\ ~parsed.threw
            /\ \E i \in ManifestEntries :
                 parsed.path = cfg.serverBuildPath \o <<"/">> \o cfg.manifest[i].file
  /\ pc = "has" => (parsed.found <=> ManifestEntries # {})

(***************************************************************************)
(* The sandboxes: the process-wide cache of the sandbox with               *)
(* clearSandboxCache, and the sandbox whose run keeps a module cache per   *)
(* call.  cfg holds the modules on disk (what each requires, which throw   *)
(* while evaluating), parsed.cache the process-wide cache, hlog every      *)
(* read-and-evaluate of a module file and every drop of the cache, ri the  *)
(* number of calls made.                                                   *)
(***************************************************************************)
MaxSandboxCalls == 3

ModulePaths == { "m1", "m2", "m3" }

Evaluated(path, by) == [op |-> "evaluate", path |-> path, by |-> by]

\* clearSandboxCache(path) was called: it dropped the cache or kept it
Cleared(path, dropped) ==
  [op |-> IF dropped THEN "drop" ELSE "keep", path |-> path, by |-> "clearSandboxCache"]

\* `cache` before its first use and after a drop
CacheUndefined == [defined |-> FALSE, paths |-> {}]

\* the loop of run over params.paths from index i on: a path the cache does
\* not have is read and evaluated and then added; an evaluation that throws
\* leaves the loop with the path not added
RECURSIVE runLoop(_, _, _, _, _)
runLoop(paths, i, loaded, log, throws) ==
  IF i > Len(paths) THEN [paths |-> loaded, log |-> log, threw |-> FALSE]
  ELSE IF paths[i] \in loaded THEN runLoop(paths, i + 1, loaded, log, throws)
  ELSE IF paths[i] \in throws
       THEN [paths |-> loaded, log |-> Append(log, Evaluated(paths[i], "run")), threw |-> TRUE]
       ELSE runLoop(paths, i + 1, loaded \cup {paths[i]},
                    Append(log, Evaluated(paths[i], "run")), throws)

\* clearSandboxCache(path) on the cache: undefined when the cache has the
\* path, the cache as it is otherwise
clearSandboxCache(cache, path) ==
  IF ~cache.defined THEN cache
  ELSE IF path \notin cache.paths THEN cache
  ELSE CacheUndefined

\* _require(referrer, specifier) of the sandbox with the per-call cache: the
\* evaluations it makes, in order.  A module under evaluation is in the
\* cache (in inCache) and is answered from it; the finally block deletes
\* the module from the cache when its evaluation ends, so a module that is
\* not under evaluation is evaluated again.  A throw ends everything.
RECURSIVE requireLog(_, _, _, _, _)
RECURSIVE requireAll(_, _, _, _, _)
requireLog(path, inCache, deps, throws, fuel) ==
  IF path \in inCache \/ fuel = 0 THEN [log |-> <<>>, threw |-> FALSE]
  ELSE IF path \in throws THEN [log |-> <<Evaluated(path, "require")>>, threw |-> TRUE]
  ELSE LET r == requireAll(deps[path], inCache \cup {path}, deps, throws, fuel - 1)
       IN [log |-> <<Evaluated(path, "require")>> \o r.log, threw |-> r.threw]

requireAll(specifiers, inCache, deps, throws, fuel) ==
  IF specifiers = <<>> THEN [log |-> <<>>, threw |-> FALSE]
  ELSE LET r == requireLog(Head(specifiers), inCache, deps, throws, fuel)
       IN IF r.threw THEN r
          ELSE LET rest == requireAll(Tail(specifiers), inCache, deps, throws, fuel)
               IN [log |-> r.log \o rest.log, threw |-> rest.threw]

\* what the modules on disk require, in the order of their require calls
ModuleGraphs ==
  { [m1 |-> <<>>, m2 |-> <<>>, m3 |-> <<>>],
    [m1 |-> <<"m2", "m3">>, m2 |-> <<"m3">>, m3 |-> <<>>],
    [m1 |-> <<"m2">>, m2 |-> <<"m1">>, m3 |-> <<>>] }

RunPathLists == { <<"m1">>, <<"m2">>, <<"m3">>, <<"m1", "m2">>, <<"m2", "m1", "m2">> }

SandboxInit ==
  /\ cfg \in { [deps |-> g, throws |-> t] : g \in ModuleGraphs, t \in { {}, {"m3"} } }
  /\ req = Request(<<"/">>, "GET", FALSE)
  /\ parsed = [cache |-> CacheUndefined]
  /\ res = NewRes
  /\ pc = "sandbox"
  /\ ri = 0
  /\ savedPathname = <<>>
  /\ stack = <<>>
  /\ pipeRes = NoResult
  /\ err = ""
  /\ outcome = "none"
  /\ invocations = <<>>
  /\ userSet = NoHeaders
  /\ hlog = <<>>
  /\ edgeRes = NoResult
  /\ edgeCalls = <<>>

sandboxFixed == << cfg, req, res, pc, savedPathname, stack, pipeRes, err, invocations,
                   userSet, edgeRes, edgeCalls >>

\* run({ name, paths, request }) of the sandbox with the process-wide cache
SandboxRun ==
  /\ ri < MaxSandboxCalls
  /\ \E paths \in RunPathLists :
       LET before == IF ~parsed.cache.defined THEN {} ELSE parsed.cache.paths
           r == runLoop(paths, 1, before, hlog, cfg.throws)
       IN /\ parsed' = [cache |-> [defined |-> TRUE, paths |-> r.paths]]
          /\ hlog' = r.log
          /\ outcome' = IF r.threw THEN "rejected" ELSE "ran"
  /\ ri' = ri + 1
  /\ UNCHANGED sandboxFixed

\* clearSandboxCache(path)
SandboxClear ==
  /\ ri < MaxSandboxCalls
  /\ \E path \in ModulePaths :
       /\ parsed' = [cache |-> clearSandboxCache(parsed.cache, path)]
       /\ hlog' = Append(hlog, Cleared(path, parsed'.cache # parsed.cache))
  /\ outcome' = "cleared"
  /\ ri' = ri + 1
  /\ UNCHANGED sandboxFixed

\* run({ path, request, response }) of the sandbox with the per-call cache
SandboxRunPerCall ==
  /\ ri < MaxSandboxCalls
  /\ \E path \in ModulePaths :
       LET r == requireLog(path, {}, cfg.deps, cfg.throws, Cardinality(ModulePaths) + 1)
       IN /\ hlog' = hlog \o r.log
          /\ outcome' = IF r.threw THEN "rejected" ELSE "ran"
  /\ ri' = ri + 1
  /\ UNCHANGED parsed
  /\ UNCHANGED sandboxFixed

SandboxNext ==
  \/ SandboxRun
  \/ SandboxClear
  \/ SandboxRunPerCall

SpecSandbox == SandboxInit /\ [][SandboxNext]_vars

\* a module path is evaluated twice with no drop of the cache in between
EvaluatedTwice(log) ==
  \E i \in DOMAIN log : \E j \in DOMAIN log :
    /\ i < j
    /\ log[i].op = "evaluate" /\ log[j].op = "evaluate"
    /\ log[i].path = log[j].path
    /\ \A k \in i..j : log[k].op # "drop"

\* C32: across any sequence of run and clearSandboxCache calls a module
\* path is read and evaluated at most once between two drops of the cache,
\* however many runs name it; clearSandboxCache(p) drops the whole cache
\* exactly when p was loaded and changes nothing when it was not
C32_EvaluatedOncePerCache ==
  [][ /\ ~EvaluatedTwice(hlog')
      /\ (outcome' = "cleared" /\ ri' = ri + 1) =>
           IF Last(hlog').path \in parsed.cache.paths
           THEN ~parsed'.cache.defined /\ parsed'.cache.paths = {}
           ELSE parsed' = parsed ]_vars

(***************************************************************************)
(* Properties of the no-fallback signal                                    *)
(***************************************************************************)
\* the route Router.execute is at
RouteAt == allRoutes(cfg)[ri]

\* in this step applyCheckTrue invoked the page catch-all: the step of a
\* route other than the page catch-all ends with the catch-all's handler
CheckTrueRendered ==
  /\ pc \in {"route", "edgeDone"}
  /\ ri <= Len(allRoutes(cfg))
  /\ RouteAt.kind # "catchAll"
  /\ Len(hlog') > Len(hlog)
  /\ Last(hlog').name = catchAllRoute.name

\* the outer response was not written to in this step
NothingWritten ==
  /\ res'.ends = res.ends
  /\ res'.body = res.body
  /\ res'.headWritten = res.headWritten
  /\ res'.statusCode = res.statusCode

\* in this step the page catch-all ran as a route of its own on a parsed URL
\* without the bubble-no-fallback marker
CatchAllWithoutMarker ==
  /\ pc = "route"
  /\ ri <= Len(allRoutes(cfg))
  /\ RouteAt.kind = "catchAll"
  /\ ~HHas(parsed.query, BubbleKey)
  /\ Len(hlog') > Len(hlog)
  /\ Last(hlog').name = catchAllRoute.name

\* C33: when the page catch-all invoked by applyCheckTrue finds no fallback
\* for the path, the error is recovered: applyCheckTrue reports
\* not-finished, nothing is written to the response and Router.execute goes
\* on with the next route (so applyCheckTrue either renders the page or
\* leaves the response alone, and never answers the 404 page); the page
\* catch-all run without the marker ends the request, with the page or
\* with a 404
C33_NoFallbackRecovered ==
  [][ /\ CheckTrueRendered =>
           IF Last(hlog').finished
           THEN pc' = "done" /\ res'.body = <<"<page>">> /\ res'.statusCode # 404
           ELSE NothingWritten /\ err' = "" /\ pc' = "route" /\ ri' = ri + 1
      /\ CatchAllWithoutMarker =>
           /\ pc' = "done" /\ res'.ends = 1
           /\ res'.body = <<"<page>">> \/ res'.statusCode = 404 ]_vars

\* applyCheckTrue invoked the page catch-all, which bubbled a no-fallback:
\* the router is at the next route with nothing written
C33_Witness ==
  /\ pc = "route"
  /\ hlog # <<>>
  /\ Last(hlog) = HEvent(catchAllRoute.name, FALSE)
  /\ ri > 1 /\ ri <= Len(allRoutes(cfg)) + 1
  /\ allRoutes(cfg)[ri - 1].kind # "catchAll"
  /\ res.ends = 0

(***************************************************************************)
(* nodeMiddlewareAdapter: an edge function used as a Node middleware.  One *)
(* call: the edge function runs over the headers of the response (its      *)
(* result is kept in edgeRes) and the adapter writes the result to the     *)
(* outer response res; req records an internal rewrite.                    *)
(***************************************************************************)
\* the adapter after `const result = await edgeFunction(...)`: the handler
\* result it returns (finished only where the code returns { finished }),
\* or the hang on a stream that is never closed
nodeMiddlewareAdapter(result, rs, rq, pq, env) ==
  LET res1 == CopyResultHeaders(rs, result)
      location == HGet(result.headers, XRedirect)
      rewrite == HGet(result.headers, XRewrite)
      resRedirect ==
        IF location = <<>> THEN res1
        ELSE LET r1 == ResSetHeader([res1 EXCEPT !.statusCode = result.statusCode],
                                    "location", location)
                 r2 == IF r1.statusCode = 308
                       THEN ResSetHeader(r1, "refresh", <<"0;url=">> \o location)
                       ELSE r1
             IN ResEnd(r2, <<>>)
  IN IF rq.method = "OPTIONS"
     THEN [hr |-> HR(FALSE, ResEnd(ResWriteHead(res1, res1.statusCode), <<>>), rq, pq),
           hang |-> FALSE]
     ELSE IF result.event = "streaming"
     THEN LET res2 == ResWrite(ResWriteHead(res1, res1.statusCode), Flatten(result.chunks))
          IN IF result.closed
             THEN [hr |-> HR(FALSE, ResEnd(res2, <<>>), rq, pq), hang |-> FALSE]
             ELSE [hr |-> HR(FALSE, res2, rq, pq), hang |-> TRUE]
     ELSE IF rewrite # <<>>
     THEN [hr |-> getRewriteHandler(rewrite, resRedirect, rq, pq, env), hang |-> FALSE]
     ELSE IF result.event = "data"
     THEN [hr |-> HR(TRUE, ResEnd(resRedirect, result.body), rq, pq), hang |-> FALSE]
     ELSE [hr |-> HR(FALSE, resRedirect, rq, pq), hang |-> FALSE]

NodeInit ==
  /\ cfg \in Servers
  /\ cfg.edgeFns # <<>>
  /\ cfg.headers = <<>> /\ cfg.fallback = <<>> /\ cfg.afterFiles = <<>>
  /\ req \in { Request(<<"/", "a">>, m, FALSE) : m \in {"GET", "OPTIONS"} }
  /\ parsed = [pathname |-> <<"/", "a">>, query |-> NoHeaders]
  /\ res = NewRes
  /\ pc = "node"
  /\ ri = 0
  /\ savedPathname = <<>>
  /\ stack = <<>>
  /\ pipeRes = NoResult
  /\ err = ""
  /\ outcome = "none"
  /\ invocations = <<>>
  /\ userSet = NoHeaders
  /\ hlog = <<>>
  /\ edgeRes = NoResult
  /\ edgeCalls = <<>>

nodeFixed == << cfg, parsed, ri, savedPathname, stack, pipeRes, invocations, userSet,
                hlog, edgeCalls >>

\* the middleware is called: the edge function runs and the adapter writes
\* its result
NodeCall ==
  /\ pc = "node"
  /\ \E prog \in Programs(MaxOps) : \E env \in Env :
       LET result == Adapter(res.headers, req.method, cfg.basePath, prog) IN
       /\ edgeRes' = result
       /\ IF result.event = "none"
          THEN pc' = "hung" /\ UNCHANGED << res, req, err, outcome >>
          ELSE LET x == nodeMiddlewareAdapter(result, res, req, parsed.query, env) IN
               /\ res' = x.hr.res
               /\ req' = x.hr.req
               /\ err' = x.hr.err
               /\ pc' = IF x.hang THEN "hung" ELSE IF x.hr.err # "" THEN "error" ELSE "nodeDone"
               /\ outcome' = IF x.hr.finished THEN "matched" ELSE "none"
  /\ UNCHANGED nodeFixed

NodeNext == NodeCall

SpecNode == NodeInit /\ [][NodeNext]_vars

\* C34: nodeMiddlewareAdapter ends the outer response at most once whatever
\* the edge result is; after it has ended the response for a redirect
\* sentinel it makes no rewrite, proxies nothing and does not end the
\* response again with the buffered body
C34_NodeAdapterEndsOnce ==
  pc \in {"nodeDone", "error", "hung"} =>
    /\ res.ends <= 1
    /\ ( /\ HGet(edgeRes.headers, XRedirect) # <<>>
         /\ req.method # "OPTIONS"
         /\ edgeRes.event \notin {"streaming", "none"} )
       => /\ res.ends = 1
          /\ res.proxied = <<>>
          /\ ~req.didRewrite /\ req.rewroteUrl = <<>>
          /\ err = ""

(***************************************************************************)
(* The adapter of one invocation under fairness: the handler that is       *)
(* running makes its next call or completes, and the pipeline takes the    *)
(* result when there is one.                                               *)
(***************************************************************************)
SpecApiFair == ApiInit /\ [][ApiNext]_vars /\ WF_vars(ApiNext)

\* the promise the adapter returned has settled
AdapterSettled == edgeRes.event # "none"

\* C35: every edge invocation eventually produces a result or an error: once
\* the user handler has completed the promise of the adapter settles, also
\* when the handler called none of next, write, send, redirect, rewrite
\* and end, and when it threw before doing so
C35_InvocationSettles == <>AdapterSettled

(***************************************************************************)
(* Properties of next()                                                    *)
(***************************************************************************)
TerminalOps == {"send", "redirect", "rewrite", "end"}

\* the handler made a call of a terminal effect
TerminalCalled(calls) == \E i \in DOMAIN calls : calls[i].op \in TerminalOps

\* the handler did not call next()
NextNotCalled(calls) == \A i \in DOMAIN calls : calls[i].op # "next"

\* this step is the handler calling next()
NextCalled ==
  /\ Len(edgeCalls') = Len(edgeCalls) + 1
  /\ Last(edgeCalls').op = "next"

\* C36: next() called after a terminal effect (send, redirect, rewrite or
\* end) neither adds the x-nextjs-next sentinel nor changes the result of
\* the invocation, so the chain stops at that function; next() adds the
\* sentinel and yields the event 'next' only when the response is not
\* finished
C36_NextAfterTerminal ==
  [][ NextCalled =>
        /\ TerminalCalled(edgeCalls) =>
             /\ edgeRes' = edgeRes
             /\ NextNotCalled(edgeCalls) => ~ChainContinues(edgeRes')
        /\ (edgeRes' # edgeRes) => ~edgeRes.finished
        /\ ~edgeRes.finished =>
             /\ HGet(edgeRes'.headers, XNext) = <<"1">>
             /\ edgeRes.event = "none" => edgeRes'.event = "next" ]_vars

\* the handler called rewrite and then next(): the result is the rewrite
C36_Witness ==
  /\ Len(edgeCalls) = 2
  /\ edgeCalls[1].op = "rewrite" /\ edgeCalls[2].op = "next"
  /\ edgeRes.event = "data"
  /\ HGet(edgeRes.headers, XRewrite) # <<>>
  /\ ~HHas(edgeRes.headers, XNext)

(***************************************************************************)
(* Properties of the result of the pipeline                                *)
(***************************************************************************)
\* some matching edge function was invoked and returned a response
SomeFunctionAnswered == \E i \in DOMAIN invocations : invocations[i].found

PageRendered == res.ends > 0 /\ res.body = <<"<page>">>

\* the handler of the edge catch-all, which runs the pipeline, was invoked
EdgePipelineRan == \E i \in DOMAIN hlog : hlog[i].name = catchAllEdgeFunctions.name

\* C38: on every request for which a page is rendered, HTML or data JSON,
\* the edge pipeline was run before the render, /_next/data/<buildId>/
\* <page>.json requests included
C38_EdgeBeforeRender ==
  PageRendered => EdgePipelineRan

(***************************************************************************)
(* Properties of the parsed URL around applyCheckTrue                      *)
(***************************************************************************)
\* in this step a rewrite route with check = true rewrote to an internal
\* destination, applyCheckTrue ran on the rewritten URL and did not finish
\* the request, so Router.execute moved on to the next route
CheckTrueNotFinished ==
  /\ pc = "route"
  /\ ri <= Len(allRoutes(cfg))
  /\ RouteAt.kind = "rewrite"
  /\ RouteAt.check
  /\ Len(hlog') > Len(hlog)
  /\ pc' = "route"
  /\ ri' = ri + 1

\* the pathname applyCheckTrue was called with: the one the rewrite handler
\* returned, which it also recorded on the request
PathnameGivenToCheck == UrlPath(req'.rewroteUrl)

\* C39: when applyCheckTrue does not finish the request the pathname of the
\* parsed URL is the one it was called with, the rewritten pathname with the
\* base path in place, also when the page catch-all was invoked and bubbled a
\* no-fallback
C39_CheckTrueKeepsPathname ==
  [][ CheckTrueNotFinished => parsed'.pathname = PathnameGivenToCheck ]_vars

(***************************************************************************)
(* Properties of requests that lack the base path                          *)
(***************************************************************************)
\* the rewrite routes of afterFiles and fallback: the ones with check = true
CheckRewriteIndexes ==
  { i \in DOMAIN allRoutes(cfg) :
      allRoutes(cfg)[i].kind = "rewrite" /\ allRoutes(cfg)[i].check }

\* Router.execute returned false at a route that requires the base path
GaveUpForBasePath == NoBasePathRequest /\ ~req.didRewrite /\ pc = "unmatched"

\* C40: for a request that lacks the configured base path, before any
\* rewrite, Router.execute does not return not-matched at a non-custom route
\* that precedes an afterFiles or fallback rewrite route: those routes have
\* all been evaluated by then
C40_RewritesReachedWithoutBasePath ==
  GaveUpForBasePath => \A i \in CheckRewriteIndexes : ri > i

====
